---- MODULE Spec2Model ----
(***************************************************************************)
(* Model of the normalization engine of the financial-data ETL backend:    *)
(* the QuickBooks (Source-A) tree normalizer and the Rootfi (Source-B)     *)
(* flat normalizer, both producing PeriodData records.                     *)
(*                                                                         *)
(* Representation of JavaScript values:                                    *)
(*   - a string that the code inspects (labels, group names, cells) is a   *)
(*     sequence of one-character strings; the empty sequence stands for    *)
(*     both "" and a missing value, which the code treats alike (every     *)
(*     read of such a value is a truthiness test or `x || default`);       *)
(*   - a number is a record [kind, v]: kind "num" carries the integer v,   *)
(*     kind "nan" is NaN and kind "inf" is Infinity;                       *)
(*   - an object with dynamic keys (PeriodData, lineItems) is a function   *)
(*     whose DOMAIN is the set of property names that are present.         *)
(***************************************************************************)
EXTENDS Integers, Sequences, FiniteSets, TLC

VARIABLES source, doc, work, out, pc, runs, store, call, http, db, nextId, req, ops

vars == <<source, doc, work, out, pc, runs, store, call, http, db, nextId, req, ops>>

-----------------------------------------------------------------------------
(* Strings as character sequences.                                          *)

UpperChars == <<"A","B","C","D","E","F","G","H","I","J","K","L","M",
                "N","O","P","Q","R","S","T","U","V","W","X","Y","Z">>

LowerChars == <<"a","b","c","d","e","f","g","h","i","j","k","l","m",
                "n","o","p","q","r","s","t","u","v","w","x","y","z">>

DigitChars == <<"0","1","2","3","4","5","6","7","8","9">>

Range(s) == { s[i] : i \in DOMAIN s }

IndexOf(seq, c) == CHOOSE i \in DOMAIN seq : seq[i] = c

UpperSet == Range(UpperChars)

\* the lower-case letter of each upper-case letter
LowerOf == [ c \in UpperSet |-> LowerChars[IndexOf(UpperChars, c)] ]

LowerChar(c) == IF c \in UpperSet THEN LowerOf[c] ELSE c

\* String.prototype.toLowerCase
ToLowerCase(s) == [ i \in 1..Len(s) |-> LowerChar(s[i]) ]

IsSpace(c) == c = " "

RECURSIVE TrimStart(_)
TrimStart(s) == IF Len(s) > 0 /\ IsSpace(s[1]) THEN TrimStart(Tail(s)) ELSE s

RECURSIVE TrimEnd(_)
TrimEnd(s) == IF Len(s) > 0 /\ IsSpace(s[Len(s)]) THEN TrimEnd(SubSeq(s, 1, Len(s) - 1)) ELSE s

\* String.prototype.trim
Trim(s) == TrimEnd(TrimStart(s))

\* String.prototype.startsWith
StartsWith(s, p) == Len(s) >= Len(p) /\ SubSeq(s, 1, Len(p)) = p

-----------------------------------------------------------------------------
(* Numbers.                                                                 *)

Num(n) == [kind |-> "num", v |-> n]

NaN == [kind |-> "nan", v |-> 0]

Infinity == [kind |-> "inf", v |-> 0]

isValidNumberNoNaNCheck(value) == value.kind \in {"num", "nan"}

\* validation.utils isValidNumber: typeof number, not NaN, finite
isValidNumber(value) == value.kind = "num"

IsDigit(c) == c \in Range(DigitChars)

DigitVal(c) == IndexOf(DigitChars, c) - 1

RECURSIVE DigitPrefixLen(_)
DigitPrefixLen(s) == IF Len(s) > 0 /\ IsDigit(s[1]) THEN 1 + DigitPrefixLen(Tail(s)) ELSE 0

RECURSIVE DigitsValue(_)
DigitsValue(s) == IF Len(s) = 0 THEN 0 ELSE 10 * DigitsValue(SubSeq(s, 1, Len(s) - 1)) + DigitVal(s[Len(s)])

InfinityWord == <<"I","n","f","i","n","i","t","y">>

\* parseFloat on strings without a decimal point or exponent: leading white
\* space is skipped, an optional sign is read, then the longest digit prefix;
\* no digits gives NaN, the word Infinity gives Infinity.
ParseFloat(str) ==
  LET t == TrimStart(str)
      signed == Len(t) > 0 /\ t[1] \in {"-", "+"}
      neg == Len(t) > 0 /\ t[1] = "-"
      body == IF signed THEN Tail(t) ELSE t
      n == DigitPrefixLen(body)
  IN  IF StartsWith(body, InfinityWord) THEN Infinity
      ELSE IF n = 0 THEN NaN
      ELSE Num((IF neg THEN -1 ELSE 1) * DigitsValue(SubSeq(body, 1, n)))

\* `x || "0"` on a string cell: the empty or missing cell becomes "0"
OrZeroString(cell) == IF Len(cell) = 0 THEN <<"0">> ELSE cell

-----------------------------------------------------------------------------
(* Canonical schema and key-mapping tables.                                 *)

FINANCIAL_CATEGORY_KEYS ==
  <<"income", "cogs", "gross_profit", "expenses", "operating_income",
    "other_income", "other_expenses", "net_other_income", "net_income">>

CanonicalKeys == Range(FINANCIAL_CATEGORY_KEYS)

G_Income == <<"I","n","c","o","m","e">>
G_COGS == <<"C","O","G","S">>
G_GrossProfit == <<"G","r","o","s","s","P","r","o","f","i","t">>
G_Expenses == <<"E","x","p","e","n","s","e","s">>
G_NetOperatingIncome == <<"N","e","t","O","p","e","r","a","t","i","n","g","I","n","c","o","m","e">>
G_OtherIncome == <<"O","t","h","e","r","I","n","c","o","m","e">>
G_OtherExpenses == <<"O","t","h","e","r","E","x","p","e","n","s","e","s">>
G_NetOtherIncome == <<"N","e","t","O","t","h","e","r","I","n","c","o","m","e">>
G_NetIncome == <<"N","e","t","I","n","c","o","m","e">>

\* Object.entries(QUICKBOOKS_UNIFIED_KEYS), in declaration order
QUICKBOOKS_UNIFIED_KEYS ==
  << [key |-> G_Income,             value |-> "income"],
     [key |-> G_COGS,               value |-> "cogs"],
     [key |-> G_GrossProfit,        value |-> "gross_profit"],
     [key |-> G_Expenses,           value |-> "expenses"],
     [key |-> G_NetOperatingIncome, value |-> "operating_income"],
     [key |-> G_OtherIncome,        value |-> "other_income"],
     [key |-> G_OtherExpenses,      value |-> "other_expenses"],
     [key |-> G_NetOtherIncome,     value |-> "net_other_income"],
     [key |-> G_NetIncome,          value |-> "net_income"] >>

\* The values a table maps to
TableValues(table) == { table[i].value : i \in DOMAIN table }

TableKeys(table) == { table[i].key : i \in DOMAIN table }

P_constructor == <<"c","o","n","s","t","r","u","c","t","o","r">>
P_toString == <<"t","o","S","t","r","i","n","g">>
P_valueOf == <<"v","a","l","u","e","O","f">>

\* The tables are plain object literals: a read table[name] that finds no own
\* property continues along the prototype chain to Object.prototype.  The
\* inherited value is a function; used as a property key it is converted to
\* its source text.  "" stands for undefined.
InheritedProperty(name) ==
  IF name = P_constructor THEN "function Object() { [native code] }"
  ELSE IF name = P_toString THEN "function toString() { [native code] }"
  ELSE IF name = P_valueOf THEN "function valueOf() { [native code] }"
  ELSE ""

\* unifiedKeys[name]
PropertyLookup(table, name) ==
  IF name \in TableKeys(table)
  THEN table[CHOOSE i \in DOMAIN table : table[i].key = name].value
  ELSE InheritedProperty(name)

\* the for..of loop over Object.entries with key.toLowerCase() === lower:
\* the value of the first entry that matches, "" when none does
CaseInsensitiveLookup(table, name) ==
  LET lower == ToLowerCase(name)
      hits == { i \in DOMAIN table : ToLowerCase(table[i].key) = lower }
  IN  IF hits = {} THEN ""
      ELSE table[CHOOSE i \in hits : \A j \in hits : i <= j].value

-----------------------------------------------------------------------------
(* PeriodData: the record both normalizers produce.  `fields` holds the    *)
(* dynamic numeric properties that are present, `lineItems` the entries of *)
(* the lineItems object, `hasLineItems` whether that object exists.        *)

NewPeriodData(companyId, startDate, endDate) ==
  [ company_id |-> companyId, startDate |-> startDate, endDate |-> endDate,
    fields |-> <<>>, hasLineItems |-> FALSE, lineItems |-> <<>> ]

\* period[key] += value: the field's earlier value is added to, not replaced
AddToField(period, key, value) ==
  [ period EXCEPT !.fields =
      [ k \in (DOMAIN @) \cup {key} |->
          IF k # key THEN @[k]
          ELSE IF k \in DOMAIN @ THEN Num(@[k].v + value.v) ELSE value ] ]

\* period[key] = value
SetField(period, key, value) ==
  [ period EXCEPT !.fields =
      [ k \in (DOMAIN @) \cup {key} |-> IF k = key THEN value ELSE @[k] ] ]

\* if (!period.lineItems) period.lineItems = {};
\* if (!period.lineItems[key]) period.lineItems[key] = [];
\* period.lineItems[key].push(item)
PushLineItem(period, key, item) ==
  [ period EXCEPT
      !.hasLineItems = TRUE,
      !.lineItems =
        [ k \in (DOMAIN @) \cup {key} |->
            IF k \notin DOMAIN @ THEN <<item>>
            ELSE IF k = key THEN Append(@[k], item) ELSE @[k] ] ]

-----------------------------------------------------------------------------
(* QuickBooksETLService (Source-A).                                        *)
(* A document is [Columns, Rows]; a column is [ColType, hasMetaData,       *)
(* MetaData]; a row is [group, ColData, Rows, hasSummary, Summary] where   *)
(* ColData and Summary are sequences of cell values and Rows the children. *)

QB_defaultCompanyId == 1

QB_defaultGroup == <<"U","n","g","r","o","u","p","e","d">>

\* Array.prototype.find on the metadata entries: index of the first entry
\* named `name`, 0 when there is none
FindMeta(meta, name) ==
  LET hits == { i \in DOMAIN meta : meta[i].Name = name }
  IN  IF hits = {} THEN 0 ELSE CHOOSE i \in hits : \A j \in hits : i <= j

IsPeriodColumnStartOnly(col) ==
  /\ col.ColType = "Money"
  /\ col.hasMetaData
  /\ FindMeta(col.MetaData, "StartDate") # 0

\* the two tests of getReportDates
IsPeriodColumn(col) ==
  /\ col.ColType = "Money"
  /\ col.hasMetaData
  /\ FindMeta(col.MetaData, "StartDate") # 0
  /\ FindMeta(col.MetaData, "EndDate") # 0

ReportDateOf(col) ==
  [ startDate |-> IF FindMeta(col.MetaData, "StartDate") = 0 THEN "undefined"
                  ELSE col.MetaData[FindMeta(col.MetaData, "StartDate")].Value,
    endDate   |-> IF FindMeta(col.MetaData, "EndDate") = 0 THEN "undefined"
                  ELSE col.MetaData[FindMeta(col.MetaData, "EndDate")].Value ]

getReportDates(quickBooksData) ==
  LET cols == SelectSeq(quickBooksData.Columns, IsPeriodColumn)
  IN  [ i \in 1..Len(cols) |-> ReportDateOf(cols[i]) ]

L_summary == <<"s","u","m","m","a","r","y">>
L_net == <<"n","e","t">>
L_totalSpace == <<"t","o","t","a","l"," ">>

determineLineTypeNoTrim(label) ==
  LET lower == ToLowerCase(label)
  IN  IF StartsWith(lower, L_summary) THEN "summary"
      ELSE IF StartsWith(lower, L_net) THEN "summary"
      ELSE IF StartsWith(lower, L_totalSpace) THEN "total"
      ELSE "normal"

determineLineType(label) ==
  LET lower == ToLowerCase(Trim(label))
  IN  IF StartsWith(lower, L_summary) THEN "summary"
      ELSE IF StartsWith(lower, L_net) THEN "summary"
      ELSE IF StartsWith(lower, L_totalSpace) THEN "total"
      ELSE "normal"

\* colData[0]?.value || "" is the label, colData.slice(1) the values
createLineItemFromColData(colData, group) ==
  LET lineItem == IF Len(colData) > 0 THEN colData[1] ELSE <<>>
  IN  [ lineItem |-> lineItem,
        group |-> group,
        valuesArray |-> IF Len(colData) > 0 THEN Tail(colData) ELSE <<>>,
        type |-> determineLineType(lineItem) ]

\* the inner function of getLineItems: pre-order walk, parentGroup unchanged
RECURSIVE traverse(_, _)
traverse(rows, parentGroup) ==
  IF Len(rows) = 0 THEN <<>>
  ELSE LET row == Head(rows)
           lineItem == createLineItemFromColData(row.ColData, parentGroup)
           own == IF Len(row.ColData) > 0 /\ lineItem.type = "normal"
                  THEN <<lineItem>> ELSE <<>>
       IN  own \o traverse(row.Rows, parentGroup) \o traverse(Tail(rows), parentGroup)

RECURSIVE getLineItemsOf(_)
getLineItemsOf(rows) ==
  IF Len(rows) = 0 THEN <<>>
  ELSE LET row == Head(rows)
       IN  (IF Len(row.group) > 0
            THEN traverse(row.Rows, row.group)
            ELSE traverse(<<row>>, QB_defaultGroup))
           \o getLineItemsOf(Tail(rows))

getLineItems(quickBooksData) == getLineItemsOf(quickBooksData.Rows)

\* the key processSummaryData maps a group to: unifiedKeys[row.group]
ResolveSummaryKey(unifiedKeys, group) == PropertyLookup(unifiedKeys, group)

ResolveLineItemKeyExactOnly(unifiedKeys, group) == PropertyLookup(unifiedKeys, group)

\* the key processLineItems maps a group to: the exact read when it is truthy,
\* else the case-insensitive scan of the entries
ResolveLineItemKey(unifiedKeys, group) ==
  IF PropertyLookup(unifiedKeys, group) # ""
  THEN PropertyLookup(unifiedKeys, group)
  ELSE CaseInsensitiveLookup(unifiedKeys, group)

\* parseFloat(cell || "0")
CellNumber(cell) == ParseFloat(OrZeroString(cell))

\* valuesArray[index], <<>> (undefined) past the end
CellAt(cells, i) == IF i \in DOMAIN cells THEN cells[i] ELSE <<>>

ApplySummaryValuesAdding(resultsByDate, unifiedKey, summaryValues) ==
  [ i \in DOMAIN resultsByDate |->
      IF i <= Len(summaryValues) /\ isValidNumber(CellNumber(summaryValues[i]))
      THEN AddToField(resultsByDate[i], unifiedKey, CellNumber(summaryValues[i]))
      ELSE resultsByDate[i] ]

\* summaryValues.forEach: a valid number at index < resultsByDate.length is
\* assigned to the period's field
ApplySummaryValues(resultsByDate, unifiedKey, summaryValues) ==
  [ i \in DOMAIN resultsByDate |->
      IF i <= Len(summaryValues) /\ isValidNumber(CellNumber(summaryValues[i]))
      THEN SetField(resultsByDate[i], unifiedKey, CellNumber(summaryValues[i]))
      ELSE resultsByDate[i] ]

\* one iteration of rows.forEach in processSummaryData
ProcessSummaryRow(row, resultsByDate, unifiedKeys) ==
  IF /\ row.hasSummary
     /\ Len(row.group) > 0
     /\ ResolveSummaryKey(unifiedKeys, row.group) # ""
  THEN ApplySummaryValues(resultsByDate,
                          ResolveSummaryKey(unifiedKeys, row.group),
                          IF Len(row.Summary) > 0 THEN Tail(row.Summary) ELSE <<>>)
  ELSE resultsByDate

RECURSIVE processSummaryData(_, _, _)
processSummaryData(rows, resultsByDate, unifiedKeys) ==
  IF Len(rows) = 0 THEN resultsByDate
  ELSE processSummaryData(Tail(rows),
                          ProcessSummaryRow(Head(rows), resultsByDate, unifiedKeys),
                          unifiedKeys)

\* resultsByDate.forEach for one item whose group resolved to unifiedKey
PushItemToPeriods(item, resultsByDate, unifiedKey) ==
  [ i \in DOMAIN resultsByDate |->
      IF isValidNumber(CellNumber(CellAt(item.valuesArray, i)))
      THEN PushLineItem(resultsByDate[i], unifiedKey,
                        [ key |-> item.lineItem,
                          value |-> CellNumber(CellAt(item.valuesArray, i)) ])
      ELSE resultsByDate[i] ]

\* one iteration of lineItems.forEach in processLineItems
ProcessLineItem(item, resultsByDate, unifiedKeys) ==
  IF item.type = "normal" /\ ResolveLineItemKey(unifiedKeys, item.group) # ""
  THEN PushItemToPeriods(item, resultsByDate, ResolveLineItemKey(unifiedKeys, item.group))
  ELSE resultsByDate

RECURSIVE processLineItems(_, _, _)
processLineItems(lineItems, resultsByDate, unifiedKeys) ==
  IF Len(lineItems) = 0 THEN resultsByDate
  ELSE processLineItems(Tail(lineItems),
                        ProcessLineItem(Head(lineItems), resultsByDate, unifiedKeys),
                        unifiedKeys)

\* resultsByDate as transformData creates it from the report dates
InitialResults(reportDates) ==
  [ i \in 1..Len(reportDates) |->
      NewPeriodData(QB_defaultCompanyId, reportDates[i].startDate, reportDates[i].endDate) ]

\* the values transformData computes on its way: the report dates, the line
\* items, resultsByDate after processSummaryData and after processLineItems
QuickBooksTransformSteps(quickBooksData) ==
  LET reportDates == getReportDates(quickBooksData)
      lineItems == getLineItems(quickBooksData)
      afterSummary == processSummaryData(quickBooksData.Rows,
                                         InitialResults(reportDates),
                                         QUICKBOOKS_UNIFIED_KEYS)
  IN  [ reportDates |-> reportDates,
        lineItems |-> lineItems,
        afterSummary |-> afterSummary,
        resultsByDate |-> processLineItems(lineItems, afterSummary, QUICKBOOKS_UNIFIED_KEYS) ]

QuickBooksTransformData(quickBooksData) ==
  QuickBooksTransformSteps(quickBooksData).resultsByDate

-----------------------------------------------------------------------------
(* RootfiETLService (Source-B).                                            *)
(* A document is a sequence of periods [period_start, period_end,          *)
(* rootfi_company_id, data]; data maps the source keys that are present to *)
(* a value [kind, v, items]: kind "arr" carries the category objects in    *)
(* items, kinds "num"/"nan"/"inf" are numbers, "null" is null; a key       *)
(* outside DOMAIN data reads as undefined.                                 *)

ROOTFI_defaultCompanyId == 2

\* Object.entries(ROOTFI_UNIFIED_KEYS), in declaration order
ROOTFI_UNIFIED_KEYS ==
  << [key |-> "revenue",                value |-> "income"],
     [key |-> "cost_of_goods_sold",     value |-> "cogs"],
     [key |-> "gross_profit",           value |-> "gross_profit"],
     [key |-> "operating_expenses",     value |-> "expenses"],
     [key |-> "operating_profit",       value |-> "operating_income"],
     [key |-> "non_operating_revenue",  value |-> "other_income"],
     [key |-> "non_operating_expenses", value |-> "other_expenses"],
     [key |-> "earnings_before_taxes",  value |-> "net_other_income"],
     [key |-> "taxes",                  value |-> "taxes"],
     [key |-> "net_profit",             value |-> "net_income"] >>

Undefined == [kind |-> "undef", v |-> 0, items |-> <<>>]

Null == [kind |-> "null", v |-> 0, items |-> <<>>]

Number(n) == [kind |-> "num", v |-> n, items |-> <<>>]

Array(items) == [kind |-> "arr", v |-> 0, items |-> items]

\* period[originalKey]
FieldOf(period, originalKey) ==
  IF originalKey \in DOMAIN period.data THEN period.data[originalKey] ELSE Undefined

\* curr.value || 0: 0, NaN, null and undefined are falsy
OrZero(value) ==
  IF value.kind = "num" /\ value.v # 0 THEN Num(value.v)
  ELSE IF value.kind = "inf" THEN Infinity
  ELSE Num(0)

\* acc + x on numbers
JsAdd(a, b) ==
  IF a.kind = "num" /\ b.kind = "num" THEN Num(a.v + b.v)
  ELSE IF a.kind = "nan" \/ b.kind = "nan" THEN NaN
  ELSE Infinity

\* only the first element's value is taken
SumValuesFirstOnly(items) == IF Len(items) = 0 THEN Num(0) ELSE OrZero(items[1].value)

\* value.reduce((acc, curr) => acc + (curr.value || 0), 0)
RECURSIVE SumValues(_)
SumValues(items) ==
  IF Len(items) = 0 THEN Num(0)
  ELSE JsAdd(SumValues(SubSeq(items, 1, Len(items) - 1)), OrZero(items[Len(items)].value))

IsSlugChar(c) == c \in Range(LowerChars) \cup Range(DigitChars) \cup {"_"}

NotParen(c) == c \notin {"(", ")"}

\* .replace(/&/g, "and")
RECURSIVE ReplaceAmpersand(_)
ReplaceAmpersand(s) ==
  IF Len(s) = 0 THEN <<>>
  ELSE (IF s[1] = "&" THEN <<"a","n","d">> ELSE <<s[1]>>) \o ReplaceAmpersand(Tail(s))

\* .replace(/\s+/g, "_"): every maximal run of white space becomes one "_"
RECURSIVE ReplaceSpaceRuns(_)
ReplaceSpaceRuns(s) ==
  IF Len(s) = 0 THEN <<>>
  ELSE IF IsSpace(s[1]) THEN <<"_">> \o ReplaceSpaceRuns(TrimStart(s))
  ELSE <<s[1]>> \o ReplaceSpaceRuns(Tail(s))

\* text.utils cleanLineItemTitles
cleanLineItemTitles(title) ==
  SelectSeq(ReplaceSpaceRuns(SelectSeq(ReplaceAmpersand(ToLowerCase(title)), NotParen)),
            IsSlugChar)

\* the line items of one category element
ElementLineItems(c) ==
  IF ~c.hasLineItems THEN <<>>
  ELSE [ j \in 1..Len(c.line_items) |->
           [ key |-> cleanLineItemTitles(c.line_items[j].name),
             value |-> c.line_items[j].value,
             originalName |-> c.line_items[j].name ] ]

\* the line items of every element, one after the other
RECURSIVE AllElementsLineItems(_)
AllElementsLineItems(items) ==
  IF Len(items) = 0 THEN <<>>
  ELSE ElementLineItems(Head(items)) \o AllElementsLineItems(Tail(items))

\* value[0]?.line_items?.map(...) || []
FirstElementLineItems(items) ==
  IF Len(items) = 0 \/ ~items[1].hasLineItems THEN <<>>
  ELSE [ j \in 1..Len(items[1].line_items) |->
           [ key |-> cleanLineItemTitles(items[1].line_items[j].name),
             value |-> items[1].line_items[j].value,
             originalName |-> items[1].line_items[j].name ] ]

\* periodData.lineItems[unifiedKey] = items
SetLineItems(periodData, unifiedKey, items) ==
  [ periodData EXCEPT
      !.lineItems = [ k \in (DOMAIN @) \cup {unifiedKey} |->
                        IF k = unifiedKey THEN items ELSE @[k] ] ]

\* every entry of the table gets a lineItems entry, empty unless the field
\* is an array
RootfiEntryStepAlwaysEntry(periodData, period, entry) ==
  LET value == FieldOf(period, entry.key)
      withObj == [periodData EXCEPT !.hasLineItems = TRUE]
  IN  IF value.kind = "arr"
      THEN SetLineItems(SetField(withObj, entry.value, SumValues(value.items)),
                        entry.value, FirstElementLineItems(value.items))
      ELSE IF isValidNumber(value)
      THEN SetLineItems(SetField(withObj, entry.value, Num(value.v)), entry.value, <<>>)
      ELSE SetLineItems(SetField(withObj, entry.value, Num(0)), entry.value, <<>>)

\* one iteration of the loop over Object.entries(ROOTFI_UNIFIED_KEYS)
RootfiEntryStep(periodData, period, entry) ==
  LET value == FieldOf(period, entry.key)
      withObj == [periodData EXCEPT !.hasLineItems = TRUE]
  IN  IF value.kind = "arr"
      THEN SetLineItems(SetField(withObj, entry.value, SumValues(value.items)),
                        entry.value, FirstElementLineItems(value.items))
      ELSE IF isValidNumber(value)
      THEN SetField(withObj, entry.value, Num(value.v))
      ELSE SetField(withObj, entry.value, Num(0))

RECURSIVE RootfiEntries(_, _, _)
RootfiEntries(periodData, period, n) ==
  IF n = 0 THEN periodData
  ELSE RootfiEntryStep(RootfiEntries(periodData, period, n - 1), period, ROOTFI_UNIFIED_KEYS[n])

\* the record takes the company id the source period carries
RootfiTransformPeriodSourceCompany(period) ==
  RootfiEntries(NewPeriodData(period.rootfi_company_id, period.period_start, period.period_end),
                period, Len(ROOTFI_UNIFIED_KEYS))

RootfiTransformPeriod(period) ==
  RootfiEntries(NewPeriodData(ROOTFI_defaultCompanyId, period.period_start, period.period_end),
                period, Len(ROOTFI_UNIFIED_KEYS))

\* a service that keeps its result list between calls and appends to it
RootfiTransformDataAccumulating(rootfiData) ==
  LET earlier == { i \in DOMAIN runs : runs[i].source = "rootfi" }
      kept == IF earlier = {} THEN <<>>
              ELSE runs[CHOOSE i \in earlier : \A j \in earlier : j <= i].out
  IN  kept \o [ i \in 1..Len(rootfiData) |-> RootfiTransformPeriod(rootfiData[i]) ]

RootfiTransformData(rootfiData) ==
  [ i \in 1..Len(rootfiData) |-> RootfiTransformPeriod(rootfiData[i]) ]

-----------------------------------------------------------------------------
(* Bounded input documents.                                                 *)

MaxCols == 3      \* columns of a document in the column family
MaxKids == 2      \* children of a top-level row in the tree family
MaxTopRows == 2   \* top-level rows of a document in the tree family
MaxPeriods == 2   \* periods of a Source-B document
MaxElems == 2     \* category objects of a Source-B array field

\* all sequences over S of length lo..hi
SeqsOf(S, lo, hi) == UNION { [1..n -> S] : n \in lo..hi }

Column(type, hasMeta, meta) == [ColType |-> type, hasMetaData |-> hasMeta, MetaData |-> meta]

Meta(name, value) == [Name |-> name, Value |-> value]

ColAccount == Column("Account", FALSE, <<>>)
ColJan == Column("Money", TRUE, <<Meta("StartDate", "2023-01-01"), Meta("EndDate", "2023-01-31")>>)
ColFeb == Column("Money", TRUE, <<Meta("EndDate", "2023-02-28"), Meta("StartDate", "2023-02-01")>>)
ColTotal == Column("Money", FALSE, <<>>)
ColStartOnly == Column("Money", TRUE, <<Meta("StartDate", "2023-03-01")>>)
ColEndOnly == Column("Money", TRUE, <<Meta("ColKey", "x"), Meta("EndDate", "2023-03-31")>>)
ColDatedText == Column("Account", TRUE, <<Meta("StartDate", "2023-04-01"), Meta("EndDate", "2023-04-30")>>)

ColumnKinds == {ColAccount, ColJan, ColFeb, ColTotal, ColStartOnly, ColEndOnly, ColDatedText}

Row(group, colData, rows, hasSummary, summary) ==
  [group |-> group, ColData |-> colData, Rows |-> rows,
   hasSummary |-> hasSummary, Summary |-> summary]

Leaf(label, values) == Row(<<>>, <<label>> \o values, <<>>, FALSE, <<>>)

\* cell values
V_100 == <<"1","0","0">>
V_150 == <<"1","5","0">>
V_7 == <<"7">>
V_abc == <<"a","b","c">>
V_12a == <<" ","1","2","a">>
V_neg5 == <<"-","5">>
V_0 == <<"0">>
V_500 == <<"5","0","0">>
V_600 == <<"6","0","0">>
V_11 == <<"1","1">>
V_22 == <<"2","2">>
V_33 == <<"3","3">>

ValueSeqs ==
  { <<V_100, V_150>>, <<V_abc, V_7>>, <<<<>>, V_neg5>>, <<V_12a>>, <<>>,
    <<InfinityWord, V_0>>, <<V_11, V_22, V_33>> }

\* row labels
T_Fees == <<"F","e","e","s">>
T_Rent == <<"R","e","n","t">>
T_NetIncome == <<"N","e","t"," ","I","n","c","o","m","e">>
T_net == <<"n","e","t">>
T_spNET == <<" ","N","E","T","x">>
T_Internet == <<"I","n","t","e","r","n","e","t">>
T_TotalIncome == <<"T","o","t","a","l"," ","I","n","c","o","m","e">>
T_TotalSp == <<"T","o","t","a","l"," ">>
T_Totals == <<"T","o","t","a","l","s">>
T_SUMMARY == <<"S","U","M","M","A","R","Y">>
T_spSummary == <<" ","s","u","m","m","a","r","y"," ","x">>
T_Su == <<"S","u","m">>

Labels ==
  { T_Fees, T_NetIncome, T_net, T_spNET, T_Internet, T_TotalIncome, T_TotalSp,
    T_Totals, T_SUMMARY, T_spSummary, T_Su, <<>> }

\* group names
G_income == <<"i","n","c","o","m","e">>
G_EXPENSES == <<"E","X","P","E","N","S","E","S">>
G_Foo == <<"F","o","o">>

TopGroups == { <<>>, G_Income, G_income, G_NetIncome, G_EXPENSES, G_Foo, P_constructor }

NestedGroups == { <<>>, G_Income, G_Foo }

LeafA == Leaf(T_Fees, <<V_100, V_150>>)
LeafB == Leaf(T_Rent, <<V_7, V_abc>>)
LeafN == Leaf(T_NetIncome, <<V_11, V_22>>)

Leaves == { LeafA, LeafB, LeafN }

NoSummary == [has |-> FALSE, cells |-> <<>>]
SummaryOf(cells) == [has |-> TRUE, cells |-> cells]

TopSummaries ==
  { NoSummary,
    SummaryOf(<<T_TotalIncome, V_500, V_600>>),
    SummaryOf(<<T_TotalIncome, V_abc, <<>>>>),
    SummaryOf(<<T_TotalIncome, V_33>>),
    SummaryOf(<<>>) }

NestedSummaries == { NoSummary, SummaryOf(<<T_Su, V_11, V_22>>) }

\* rows one level below the top: leaves, and nested rows with at most one leaf
NestedRows ==
  { Row(g, <<>>, ks, sm.has, sm.cells) :
      g \in NestedGroups, ks \in {<<>>, <<LeafA>>}, sm \in NestedSummaries }

Kids == Leaves \cup NestedRows

\* a nested row inside a nested row (depth 3 below the top-level row)
DeepRows ==
  { Row(g1, <<>>, <<Row(g2, <<>>, <<LeafB>>, sm.has, sm.cells)>>, FALSE, <<>>) :
      g1 \in {<<>>, G_Foo}, g2 \in {G_Income}, sm \in NestedSummaries }

\* top-level rows: every group and summary over a few child lists,
TopRowsSmall ==
  { Row(g, <<>>, ks, sm.has, sm.cells) :
      g \in TopGroups, ks \in {<<>>, <<LeafA>>, <<LeafB, LeafA>>}, sm \in TopSummaries }

\* a few groups over every child list, with and without cells of their own,
TopRowsDeep ==
  { Row(g, v.cd, ks, v.sm.has, v.sm.cells) :
      g \in {<<>>, G_Income, G_Foo},
      v \in { [cd |-> <<>>, sm |-> NoSummary],
              [cd |-> <<T_Rent, V_33, V_22>>,
               sm |-> SummaryOf(<<T_TotalIncome, V_500, V_600>>)] },
      ks \in SeqsOf(Kids \cup DeepRows, 0, MaxKids) }

\* and the rows that documents with several top-level rows are made of
TopRowsMulti ==
  { Row(g, <<>>, ks, sm.has, sm.cells) :
      g \in {<<>>, G_Income, G_income, G_NetIncome},
      ks \in {<<>>, <<LeafA>>},
      sm \in { NoSummary, SummaryOf(<<T_TotalIncome, V_500, V_600>>),
               SummaryOf(<<T_TotalIncome, V_abc, V_7>>) } }

StandardColumns == <<ColAccount, ColJan, ColFeb>>

\* the column family: every column list over a fixed tree
ColumnDocs ==
  { [Columns |-> cs, Rows |-> rs] :
      cs \in SeqsOf(ColumnKinds, 0, MaxCols),
      rs \in { << Row(G_Income, <<>>, <<Leaf(T_Fees, <<V_11, V_22, V_33>>)>>,
                      TRUE, <<T_TotalIncome, V_100, V_150, V_7>>) >> } }

\* the label family: one row of every label and every value list
LabelDocs ==
  { [Columns |-> StandardColumns,
     Rows |-> << Row(G_Income, <<>>, <<Leaf(l, vs), LeafB>>, FALSE, <<>>) >>] :
      l \in Labels, vs \in ValueSeqs }

\* the tree family
TreeDocs ==
  { [Columns |-> StandardColumns, Rows |-> rs] :
      rs \in SeqsOf(TopRowsMulti, 0, MaxTopRows)
              \cup { <<r>> : r \in TopRowsSmall \cup TopRowsDeep } }

QuickBooksDocs == ColumnDocs \cup LabelDocs \cup TreeDocs

-----------------------------------------------------------------------------
(* Source-B documents.                                                      *)

N_ProductA == <<"P","r","o","d","u","c","t"," ","A">>
N_RandD == <<"R"," ","&"," "," ","D"," ","(","n","e","w",")","!">>
N_Sales == <<"S","a","l","e","s">>

LineItem(name, value) == [name |-> name, value |-> value]

Category(name, value, hasItems, items) ==
  [name |-> name, value |-> value, hasLineItems |-> hasItems, line_items |-> items]

Categories ==
  { Category(N_Sales, Number(1000), TRUE,
             <<LineItem(N_ProductA, Number(600)), LineItem(N_RandD, Number(400))>>),
    Category(N_Sales, Number(250), TRUE, <<LineItem(N_RandD, Number(250))>>),
    Category(N_Sales, Null, FALSE, <<>>),
    Category(N_Sales, Number(-40), TRUE, <<>>) }

ArrayValues == { Array(items) : items \in SeqsOf(Categories, 0, MaxElems) }

ScalarValues == { Number(300), Number(0), Null, [kind |-> "nan", v |-> 0, items |-> <<>>] }

RootfiPeriod(start, end, companyId, data) ==
  [period_start |-> start, period_end |-> end, rootfi_company_id |-> companyId, data |-> data]

\* periods that vary revenue (an array, a scalar or missing) and the scalars
RootfiPeriods ==
  { RootfiPeriod("2023-01-01", "2023-01-31", 7,
                 [revenue |-> rev, gross_profit |-> Number(300), net_profit |-> Number(120)]) :
      rev \in ArrayValues \cup ScalarValues }
  \cup
  { RootfiPeriod("2023-02-01", "2023-02-28", 8,
                 [gross_profit |-> gp, taxes |-> Null,
                  operating_expenses |-> Array(<<>>)]) :
      gp \in ArrayValues \cup ScalarValues }

\* the periods that documents with several periods are made of
RootfiPeriodsMulti ==
  { RootfiPeriod("2023-01-01", "2023-01-31", 7,
                 [revenue |-> Array(<<c>>), net_profit |-> Number(120)]) :
      c \in Categories }
  \cup
  { RootfiPeriod("2023-02-01", "2023-02-28", 8, [taxes |-> Number(15)]),
    RootfiPeriod("2023-02-01", "2023-03-31", 7, <<>>) }

RootfiDocs ==
  { <<p>> : p \in RootfiPeriods } \cup SeqsOf(RootfiPeriodsMulti, 0, MaxPeriods)

-----------------------------------------------------------------------------
(* The state machine: a source document is drawn, then normalized.          *)
(* work holds the intermediate values of the QuickBooks transformData call. *)

NoWork ==
  [reportDates |-> <<>>, lineItems |-> <<>>, afterSummary |-> <<>>, resultsByDate |-> <<>>]

\* no call of the merge query has been made, no request has been received
NoCall == [made |-> FALSE]

NoRequest == [phase |-> "none"]

\* the database, its id sequence and the clients of the ETL operations
etlVars == <<db, nextId, req, ops>>

\* the four tables are empty
EmptyDb == [companies |-> {}, periods |-> {}, categories |-> {}]

Clients == {"c1", "c2"}

\* a client that runs no operation.  While one runs: op is the operation,
\* pc the await it stands at, src the source whose pipeline runs, batch the
\* PeriodData handed to the save, statistics what getStatistics counted in
\* the open transaction, deleting what the open clear deletes,
\* qb, rootfi and result the results returned so far (none or one), threw
\* whether the operation threw, log the stages invoked, rejected what the
\* fetches failed with and saves the batches handed to saveCompanyData
Idle ==
  [ op |-> "idle", pc |-> "idle", src |-> "none", batch |-> <<>>,
    statistics |-> [companies |-> 0, reportPeriods |-> 0, categories |-> 0, lineItems |-> 0],
    deleting |-> EmptyDb, qb |-> <<>>, rootfi |-> <<>>, result |-> <<>>,
    threw |-> FALSE, log |-> <<>>, rejected |-> <<>>, saves |-> <<>> ]

\* no ETL operation is running
NoEtl ==
  /\ db = EmptyDb
  /\ nextId = 1
  /\ req = [c \in Clients |-> Idle]
  /\ ops = 0

Init ==
  /\ pc = "ready"
  /\ out = <<>>
  /\ work = NoWork
  /\ runs = <<>>
  /\ store = {}
  /\ call = NoCall
  /\ http = NoRequest
  /\ NoEtl
  /\ \/ source = "quickbooks" /\ doc \in QuickBooksDocs
     \/ source = "rootfi" /\ doc \in RootfiDocs

\* QuickBooksETLService.transformData: the document is read, never written
QuickBooksCall ==
  /\ pc = "ready"
  /\ source = "quickbooks"
  /\ work' = QuickBooksTransformSteps(doc)
  /\ out' = QuickBooksTransformData(doc)
  /\ pc' = "done"
  /\ UNCHANGED <<source, doc>>

\* RootfiETLService.transformData: the document is read, never written
RootfiCall ==
  /\ pc = "ready"
  /\ source = "rootfi"
  /\ out' = RootfiTransformData(doc)
  /\ pc' = "done"
  /\ UNCHANGED <<source, doc, work>>

TransformQuickBooks == QuickBooksCall /\ UNCHANGED <<runs, store, call, http>> /\ UNCHANGED etlVars

TransformRootfi == RootfiCall /\ UNCHANGED <<runs, store, call, http>> /\ UNCHANGED etlVars

Next == TransformQuickBooks \/ TransformRootfi

Spec == Init /\ [][Next]_vars

-----------------------------------------------------------------------------
(* Vocabulary of the properties: the source document seen as a tree of     *)
(* rows addressed by index paths, and the record fields that are present.  *)

Done(src) == pc = "done" /\ source = src

RECURSIVE PathsOf(_)
PathsOf(rows) ==
  UNION { {<<i>>} \cup { <<i>> \o p : p \in PathsOf(rows[i].Rows) } : i \in DOMAIN rows }

RECURSIVE RowAt(_, _)
RowAt(rows, p) == IF Len(p) = 1 THEN rows[p[1]] ELSE RowAt(rows[p[1]].Rows, Tail(p))

\* p comes before q in a pre-order walk (a row before its descendants,
\* earlier siblings first)
PathBefore(p, q) ==
  \E n \in 0..Len(p) :
    /\ n <= Len(q)
    /\ \A j \in 1..n : p[j] = q[j]
    /\ \/ n = Len(p) /\ n < Len(q)
       \/ n < Len(p) /\ n < Len(q) /\ p[n + 1] < q[n + 1]

\* the elements of a set of paths as a sequence in pre-order
InPreOrder(S) ==
  [ i \in 1..Cardinality(S) |->
      CHOOSE p \in S : Cardinality({ q \in S : PathBefore(q, p) }) = i - 1 ]

\* the k-th smallest element of a set of numbers
KthOf(S, k) == CHOOSE i \in S : Cardinality({ j \in S : j < i }) = k - 1

HasMeta(col, name) == col.hasMetaData /\ \E m \in Range(col.MetaData) : m.Name = name

\* the columns the specification calls period columns
DatedMoneyColumns(d) ==
  { i \in DOMAIN d.Columns :
      /\ d.Columns[i].ColType = "Money"
      /\ HasMeta(d.Columns[i], "StartDate")
      /\ HasMeta(d.Columns[i], "EndDate") }

FieldPresent(period, f) == f \in DOMAIN period.fields

-----------------------------------------------------------------------------
SummaryWriters(d, k, f) ==
  { i \in DOMAIN d.Rows :
      /\ d.Rows[i].hasSummary
      /\ \E e \in Range(QUICKBOOKS_UNIFIED_KEYS) : e.key = d.Rows[i].group /\ e.value = f
      /\ k + 1 <= Len(d.Rows[i].Summary)
      /\ CellNumber(d.Rows[i].Summary[k + 1]).kind = "num" }

-----------------------------------------------------------------------------
\* the rows of the tree, at any depth
AllRows(d) == { RowAt(d.Rows, p) : p \in PathsOf(d.Rows) }

\* the column the k-th output period was extracted from
PeriodColumn(d, k) == KthOf(DatedMoneyColumns(d), k)

(* C2.  Column-to-period alignment: every value in the k-th PeriodRecord   *)
(* (a line-item value or a summary value) is the cell, in its row, of the  *)
(* column from which the k-th period's dates were extracted, also when an  *)
(* undated monetary column sits before that column.  Stated for documents *)
(* whose first column is the label column.                                 *)
C2_ColumnAlignment ==
  /\ Done("quickbooks")
  /\ Len(doc.Columns) > 0 /\ doc.Columns[1] = ColAccount
  /\ Len(out) = Cardinality(DatedMoneyColumns(doc))
  =>
    \A k \in DOMAIN out :
      /\ \A f \in DOMAIN out[k].lineItems : \A j \in DOMAIN out[k].lineItems[f] :
           \E r \in AllRows(doc) :
             /\ Len(r.ColData) > 0 /\ r.ColData[1] = out[k].lineItems[f][j].key
             /\ CellNumber(CellAt(r.ColData, PeriodColumn(doc, k)))
                  = out[k].lineItems[f][j].value
      /\ \A f \in DOMAIN out[k].fields :
           \E r \in AllRows(doc) :
             /\ r.hasSummary
             /\ CellNumber(CellAt(r.Summary, PeriodColumn(doc, k))) = out[k].fields[f]

-----------------------------------------------------------------------------
(* C3.  Period extraction: exactly one PeriodRecord per monetary column    *)
(* that has both a StartDate and an EndDate annotation, in column order    *)
(* and with those two dates; a monetary column lacking either yields no    *)
(* record.                                                                 *)
C3_PeriodExtraction ==
  Done("quickbooks") =>
    /\ Len(out) = Cardinality(DatedMoneyColumns(doc))
    /\ \A k \in DOMAIN out :
         LET col == doc.Columns[PeriodColumn(doc, k)]
         IN  /\ \E m \in Range(col.MetaData) :
                  m.Name = "StartDate" /\ m.Value = out[k].startDate
             /\ \E m \in Range(col.MetaData) :
                  m.Name = "EndDate" /\ m.Value = out[k].endDate

\* a monetary column with only one date annotation stands between two
\* period columns and yields no record
C3_Witness ==
  /\ Done("quickbooks")
  /\ Len(doc.Columns) = 3
  /\ doc.Columns[1] = ColFeb
  /\ doc.Columns[2] \in {ColStartOnly, ColEndOnly, ColTotal}
  /\ doc.Columns[3] = ColJan
  /\ Len(out) = 2
  /\ out[1].startDate = "2023-02-01"
  /\ out[2].endDate = "2023-01-31"

-----------------------------------------------------------------------------
Max(S) == CHOOSE i \in S : \A j \in S : j <= i

(* C4 (as stated).  For a top-level row with a Summary block whose group   *)
(* is a key of the mapping table, the canonical field of period k equals   *)
(* the k-th summary value after the label cell; the line-item pass leaves  *)
(* the category fields alone.                                              *)
C4_SummaryPrecedence ==
  Done("quickbooks") =>
    /\ \A i \in DOMAIN doc.Rows : \A e \in Range(QUICKBOOKS_UNIFIED_KEYS) :
         (doc.Rows[i].hasSummary /\ doc.Rows[i].group = e.key) =>
           \A k \in DOMAIN out :
             k + 1 <= Len(doc.Rows[i].Summary) =>
               /\ FieldPresent(out[k], e.value)
               /\ out[k].fields[e.value] = CellNumber(doc.Rows[i].Summary[k + 1])
    /\ \A k \in DOMAIN out : out[k].fields = work.afterSummary[k].fields

(* C4 (amended).  A summary cell that parses to a valid number is assigned *)
(* (not added) to the canonical field of the period at its position; when  *)
(* several top-level rows name the same group the last valid cell stands,  *)
(* and a cell that is not a valid number leaves the field as it was.  The  *)
(* line-item pass never changes a category field.                          *)
C4_LastValidSummaryStands ==
  Done("quickbooks") =>
    \A k \in DOMAIN out :
      /\ \A f \in CanonicalKeys :
           SummaryWriters(doc, k, f) # {} =>
             /\ FieldPresent(out[k], f)
             /\ out[k].fields[f]
                  = CellNumber(doc.Rows[Max(SummaryWriters(doc, k, f))].Summary[k + 1])
      /\ out[k].fields = work.afterSummary[k].fields

\* two top-level rows of the same group, both with a Summary, the second one
\* without a valid number for the first period, and line items present
C4_Witness ==
  /\ Done("quickbooks")
  /\ Len(doc.Rows) = 2
  /\ doc.Rows[1].group = G_Income /\ doc.Rows[2].group = G_Income
  /\ doc.Rows[1].hasSummary /\ doc.Rows[2].hasSummary
  /\ Len(out) = 2
  /\ FieldPresent(out[1], "income") /\ out[1].fields["income"] = Num(500)
  /\ FieldPresent(out[2], "income") /\ out[2].fields["income"] = Num(7)
  /\ out[1].hasLineItems

-----------------------------------------------------------------------------
(* C5.  Identical matching: a group name is mapped by the summary mapping  *)
(* to a canonical key exactly when the line-item mapping maps it there     *)
(* (exact match, then case-insensitive); so a top-level summary row whose  *)
(* group the line-item mapping resolves to key f writes field f.           *)
C5_IdenticalMatching ==
  Done("quickbooks") =>
    \A i \in DOMAIN doc.Rows : \A f \in CanonicalKeys : \A k \in DOMAIN out :
      LET r == doc.Rows[i]
      IN  ( /\ r.hasSummary
            /\ Len(r.group) > 0
            /\ k + 1 <= Len(r.Summary)
            /\ CellNumber(r.Summary[k + 1]).kind = "num"
            /\ ResolveLineItemKey(QUICKBOOKS_UNIFIED_KEYS, r.group) = f )
          => /\ ResolveSummaryKey(QUICKBOOKS_UNIFIED_KEYS, r.group) = f
             /\ FieldPresent(out[k], f)

-----------------------------------------------------------------------------
(* C6.  A row nested inside a Group row, with a Summary block and a group  *)
(* that is a key of the mapping table, writes the canonical field as a     *)
(* top-level row does.                                                     *)
C6_NestedSummary ==
  Done("quickbooks") =>
    \A p \in PathsOf(doc.Rows) : \A e \in Range(QUICKBOOKS_UNIFIED_KEYS) :
      LET r == RowAt(doc.Rows, p)
      IN  ( /\ Len(p) >= 2
            /\ Len(doc.Rows[p[1]].group) > 0
            /\ r.hasSummary
            /\ r.group = e.key )
          => \A k \in DOMAIN out :
               (k + 1 <= Len(r.Summary) /\ CellNumber(r.Summary[k + 1]).kind = "num")
               => FieldPresent(out[k], e.value)

-----------------------------------------------------------------------------
\* etlConfig.defaultGroup
etlConfig_defaultGroup == <<"U","n","g","r","o","u","p","e","d">>

\* the group of the nearest proper ancestor that has one, else the default
NearestAncestorGroup(d, p) ==
  LET A == { n \in 1..(Len(p) - 1) : Len(RowAt(d.Rows, SubSeq(p, 1, n)).group) > 0 }
  IN  IF A = {} THEN etlConfig_defaultGroup
      ELSE RowAt(d.Rows, SubSeq(p, 1, Max(A))).group

(* C7.  Group association: every line item carries the group of the        *)
(* nearest ancestor Group row of the row it was made from (a nested Group  *)
(* overrides the outer one), or the configured default group label when    *)
(* the row has no ancestor Group.                                          *)
C7_NearestAncestorGroup ==
  Done("quickbooks") =>
    \A j \in DOMAIN work.lineItems :
      \E p \in PathsOf(doc.Rows) :
        LET r == RowAt(doc.Rows, p)
        IN  /\ Len(r.ColData) > 0
            /\ r.ColData[1] = work.lineItems[j].lineItem
            /\ Tail(r.ColData) = work.lineItems[j].valuesArray
            /\ NearestAncestorGroup(doc, p) = work.lineItems[j].group

-----------------------------------------------------------------------------
\* s starts with the lower-case prefix p, letter case ignored
HasPrefixIgnoringCase(s, p) ==
  Len(s) >= Len(p) /\ \A i \in 1..Len(p) : LowerChar(s[i]) = p[i]

ReservedPrefix(s) ==
  \/ HasPrefixIgnoringCase(s, L_summary)
  \/ HasPrefixIgnoringCase(s, L_net)
  \/ HasPrefixIgnoringCase(s, L_totalSpace)

\* s without its leading and trailing blanks
Stripped(s) ==
  LET inked == { i \in DOMAIN s : s[i] # " " }
  IN  IF inked = {} THEN <<>>
      ELSE SubSeq(s, CHOOSE i \in inked : \A j \in inked : i <= j, Max(inked))

\* the rows the walk of getLineItems makes a line item of: every row with
\* cells except a top-level row that has a group
VisitedPaths(d) ==
  { p \in PathsOf(d.Rows) :
      /\ Len(RowAt(d.Rows, p).ColData) > 0
      /\ Len(p) = 1 => Len(d.Rows[p[1]].group) = 0 }

LabelAt(d, p) == RowAt(d.Rows, p).ColData[1]

\* every key of every line item of every output record
OutputItemKeys ==
  UNION { UNION { { out[k].lineItems[f][j].key : j \in DOMAIN out[k].lineItems[f] } :
                  f \in DOMAIN out[k].lineItems } : k \in DOMAIN out }

(* C8 (as stated).  Row classification is a case-insensitive prefix test   *)
(* on the row label ("summary", "net", "total "); exactly the rows whose   *)
(* label has none of these prefixes are emitted, so no emitted line item   *)
(* has a label starting with one of them.                                  *)
C8_PrefixClassification ==
  Done("quickbooks") =>
    /\ \A j \in DOMAIN work.lineItems : ~ReservedPrefix(work.lineItems[j].lineItem)
    /\ \A key \in OutputItemKeys : ~ReservedPrefix(key)
    /\ Len(work.lineItems)
         = Cardinality({ p \in VisitedPaths(doc) : ~ReservedPrefix(LabelAt(doc, p)) })

(* C8 (amended).  The prefix test is made on the label with leading and    *)
(* trailing white space removed: exactly the rows whose trimmed label has  *)
(* none of the prefixes are emitted, and no emitted line item has a label  *)
(* whose trimmed form starts with "summary", "net" or "total ".            *)
C8_TrimmedPrefixClassification ==
  Done("quickbooks") =>
    /\ \A j \in DOMAIN work.lineItems :
         /\ work.lineItems[j].type = "normal"
         /\ ~ReservedPrefix(Stripped(work.lineItems[j].lineItem))
    /\ \A key \in OutputItemKeys : ~ReservedPrefix(Stripped(key))
    /\ Len(work.lineItems)
         = Cardinality({ p \in VisitedPaths(doc) : ~ReservedPrefix(Stripped(LabelAt(doc, p))) })

\* the label "Total " (nothing after the blank) is emitted as a line item
C8_Witness ==
  /\ Done("quickbooks")
  /\ \E j \in DOMAIN work.lineItems : work.lineItems[j].lineItem = T_TotalSp
  /\ T_TotalSp \in OutputItemKeys
  /\ Len(work.lineItems) = 2

-----------------------------------------------------------------------------
\* group g resolves to canonical key f: by an exact match in the key table,
\* else by the first entry that matches with letter case ignored
ResolvesTo(g, f) ==
  LET T == QUICKBOOKS_UNIFIED_KEYS
  IN  \E i \in DOMAIN T :
        /\ T[i].value = f
        /\ \/ T[i].key = g
           \/ /\ \A j \in DOMAIN T : T[j].key # g
              /\ ToLowerCase(T[i].key) = ToLowerCase(g)
              /\ \A j \in 1..(i - 1) : ToLowerCase(T[j].key) # ToLowerCase(g)

ItemsUnder(period, f) ==
  IF f \in DOMAIN period.lineItems THEN period.lineItems[f] ELSE <<>>

\* the line items period k must hold under key f, from the normal rows in
\* the order getLineItems lists them
ExpectedItems(items, k, f) ==
  LET Keep(item) == /\ ResolvesTo(item.group, f)
                    /\ CellNumber(CellAt(item.valuesArray, k)).kind = "num"
      kept == SelectSeq(items, Keep)
  IN  [ j \in 1..Len(kept) |->
          [ key |-> kept[j].lineItem,
            value |-> CellNumber(CellAt(kept[j].valuesArray, k)) ] ]

\* the visited rows with a normal label, in pre-order of the document
NormalPathsInOrder(d) ==
  InPreOrder({ p \in VisitedPaths(d) : ~ReservedPrefix(Stripped(LabelAt(d, p))) })

-----------------------------------------------------------------------------
AllowedKeys ==
  IF source = "quickbooks" THEN TableValues(QUICKBOOKS_UNIFIED_KEYS)
  ELSE TableValues(ROOTFI_UNIFIED_KEYS)

(* C10.  No synthetic keys: in every PeriodRecord of either normalizer     *)
(* every key of lineItems and every category field is a canonical key of   *)
(* the source's mapping table; a row whose group resolves to no canonical  *)
(* key creates no field and no lineItems entry.                            *)
C10_NoSyntheticKeys ==
  pc = "done" =>
    \A k \in DOMAIN out :
      /\ DOMAIN out[k].lineItems \subseteq AllowedKeys
      /\ DOMAIN out[k].fields \subseteq AllowedKeys

-----------------------------------------------------------------------------
(* Vocabulary of the Source-B properties.                                  *)

\* the value of a category object as a plain integer, 0 when it has none
ElementValue(c) == IF c.value.kind = "num" THEN c.value.v ELSE 0

\* the sum of the values of the elements, taken from the head
RECURSIVE SumFromHead(_)
SumFromHead(items) ==
  IF items = <<>> THEN 0 ELSE ElementValue(Head(items)) + SumFromHead(Tail(items))

\* the source keys of a period that hold an array
ArrayKeys(period) ==
  { k \in DOMAIN period.data : period.data[k].kind = "arr" }

\* the unified key a Source-B key maps to
UnifiedKeyOf(sourceKey) ==
  ROOTFI_UNIFIED_KEYS[CHOOSE i \in DOMAIN ROOTFI_UNIFIED_KEYS :
                        ROOTFI_UNIFIED_KEYS[i].key = sourceKey].value

\* a name of letters and digits separated by single spaces
SimpleName(name) ==
  /\ Len(name) > 0
  /\ \A i \in DOMAIN name :
       \/ name[i] \in Range(LowerChars) \cup Range(UpperChars) \cup Range(DigitChars)
       \/ /\ name[i] = " "
          /\ 1 < i /\ i < Len(name)
          /\ name[i - 1] # " "

\* such a name in lower case with "_" for each space
Slug(name) ==
  [ i \in 1..Len(name) |-> IF name[i] = " " THEN "_" ELSE LowerChar(name[i]) ]

N_r_and_d_new == <<"r","_","a","n","d","_","d","_","n","e","w">>

-----------------------------------------------------------------------------
(* C11.  Source-B canonical value rule: for every source period and every  *)
(* entry of the Source-B key table, an array field gives the sum of the    *)
(* values of all its elements (0 for the empty array), a valid finite      *)
(* number gives that number, and everything else (missing, null, not a     *)
(* number) gives 0.                                                        *)
C11_CanonicalValueRule ==
  Done("rootfi") =>
    \A k \in DOMAIN doc : \A i \in DOMAIN ROOTFI_UNIFIED_KEYS :
      LET e == ROOTFI_UNIFIED_KEYS[i]
          present == e.key \in DOMAIN doc[k].data
          x == IF present THEN doc[k].data[e.key] ELSE Undefined
          expected == IF ~present THEN 0
                      ELSE IF x.kind = "arr" THEN SumFromHead(x.items)
                      ELSE IF x.kind = "num" THEN x.v
                      ELSE 0
      IN  /\ k \in DOMAIN out
          /\ FieldPresent(out[k], e.value)
          /\ out[k].fields[e.value] = Num(expected)

\* one period shows an array of two elements summed, the empty array, a
\* null and a missing field, the last three all 0
C11_Witness ==
  /\ Done("rootfi")
  /\ \E k \in DOMAIN doc :
       /\ DOMAIN doc[k].data = {"gross_profit", "taxes", "operating_expenses"}
       /\ doc[k].data["gross_profit"].kind = "arr"
       /\ Len(doc[k].data["gross_profit"].items) = 2
       /\ out[k].fields["gross_profit"] = Num(1250)
       /\ doc[k].data["operating_expenses"] = Array(<<>>)
       /\ out[k].fields["expenses"] = Num(0)
       /\ doc[k].data["taxes"] = Null
       /\ out[k].fields["taxes"] = Num(0)
       /\ out[k].fields["income"] = Num(0)

-----------------------------------------------------------------------------
(* C12.  Source-B line items: for an array field the line items under its  *)
(* canonical key are those of the first element only, in source order,     *)
(* each with the normalized name as key (lower case, "_" between words,    *)
(* only letters, digits and "_") and the source value as value, while the  *)
(* canonical value sums all elements; nothing of a later element is in     *)
(* the record, and an empty array gives the empty list.                    *)
C12_FirstElementLineItems ==
  Done("rootfi") =>
    \A k \in DOMAIN doc :
      /\ k \in DOMAIN out
      /\ DOMAIN out[k].lineItems = { UnifiedKeyOf(sk) : sk \in ArrayKeys(doc[k]) }
      /\ \A sk \in ArrayKeys(doc[k]) :
           LET elems == doc[k].data[sk].items
               first == IF Len(elems) > 0 /\ elems[1].hasLineItems
                        THEN elems[1].line_items ELSE <<>>
               got == out[k].lineItems[UnifiedKeyOf(sk)]
           IN  /\ Len(got) = Len(first)
               /\ out[k].fields[UnifiedKeyOf(sk)] = Num(SumFromHead(elems))
               /\ \A j \in DOMAIN first :
                    /\ got[j].value = first[j].value
                    /\ got[j].originalName = first[j].name
                    /\ \A c \in Range(got[j].key) : IsSlugChar(c)
                    /\ SimpleName(first[j].name) => got[j].key = Slug(first[j].name)
                    /\ first[j].name = N_RandD => got[j].key = N_r_and_d_new

\* two elements, each with line items: the value is the sum of both, the
\* list holds the two items of the first
C12_Witness ==
  /\ Done("rootfi")
  /\ \E k \in DOMAIN doc :
       /\ "revenue" \in DOMAIN doc[k].data
       /\ doc[k].data["revenue"].kind = "arr"
       /\ Len(doc[k].data["revenue"].items) = 2
       /\ doc[k].data["revenue"].items[2].line_items # <<>>
       /\ doc[k].data["revenue"].items[2].line_items # doc[k].data["revenue"].items[1].line_items
       /\ out[k].fields["income"] = Num(1250)
       /\ Len(out[k].lineItems["income"]) = 2
       /\ out[k].lineItems["income"][1].key = <<"p","r","o","d","u","c","t","_","a">>
       /\ out[k].lineItems["income"][1].value = Number(600)
       /\ out[k].lineItems["income"][2].key = N_r_and_d_new

-----------------------------------------------------------------------------
(* C13.  Source-B output shape: one PeriodRecord per element of the source *)
(* array, in source order, startDate and endDate copied from period_start  *)
(* and period_end, and every record with the one fixed company id of the   *)
(* source whatever rootfi_company_id the periods carry.                    *)
C13_OutputShape ==
  Done("rootfi") =>
    /\ Len(out) = Len(doc)
    /\ \A k \in DOMAIN doc :
         /\ out[k].startDate = doc[k].period_start
         /\ out[k].endDate = doc[k].period_end
         /\ out[k].company_id = 2
    /\ Cardinality({ out[k].company_id : k \in DOMAIN out }) <= 1

\* two periods of different companies and dates
C13_Witness ==
  /\ Done("rootfi")
  /\ Len(doc) = 2
  /\ doc[1].rootfi_company_id # doc[2].rootfi_company_id
  /\ doc[1].period_start # doc[2].period_start
  /\ out[1].startDate = "2023-02-01" /\ out[2].startDate = "2023-01-01"
  /\ out[1].company_id = out[2].company_id

-----------------------------------------------------------------------------
(* C14 (as stated).  Populated categories always have a line-item entry:   *)
(* in every PeriodRecord of either source, for every canonical key whose   *)
(* category field the normalizer populated, lineItems exists and has an    *)
(* entry for that key, possibly the empty sequence.                        *)
C14_PopulatedHasEntry ==
  pc = "done" =>
    \A k \in DOMAIN out : \A f \in CanonicalKeys :
      FieldPresent(out[k], f) =>
        /\ out[k].hasLineItems
        /\ f \in DOMAIN out[k].lineItems

(* C14 (amended).  A Source-B record always has lineItems, with an entry   *)
(* (possibly empty) exactly for the categories whose source field is an    *)
(* array; a category populated from a number or defaulted to 0 has none.   *)
(* A Source-A record has lineItems exactly when some line item was         *)
(* emitted into it, with an entry exactly for the categories that received *)
(* at least one line item, and no entry is empty; a summary row alone      *)
(* creates no entry.                                                       *)
C14_EntryOnlyWithLineItems ==
  /\ Done("rootfi") =>
       \A k \in DOMAIN out :
         /\ out[k].hasLineItems
         /\ \A i \in DOMAIN ROOTFI_UNIFIED_KEYS :
              LET e == ROOTFI_UNIFIED_KEYS[i]
              IN  /\ FieldPresent(out[k], e.value)
                  /\ e.value \in DOMAIN out[k].lineItems <=> e.key \in ArrayKeys(doc[k])
  /\ Done("quickbooks") =>
       \A k \in DOMAIN out :
         /\ out[k].hasLineItems <=> DOMAIN out[k].lineItems # {}
         /\ \A f \in DOMAIN out[k].lineItems : Len(out[k].lineItems[f]) > 0
         /\ \A f \in CanonicalKeys :
              f \in DOMAIN out[k].lineItems <=> ExpectedItems(work.lineItems, k, f) # <<>>

\* a Source-B period whose revenue is the empty array and whose gross
\* profit is a number: both fields populated, an (empty) entry for the first
\* and none for the second
C14_Witness ==
  /\ Done("rootfi")
  /\ \E k \in DOMAIN out :
       /\ doc[k].data["revenue"] = Array(<<>>)
       /\ out[k].fields["income"] = Num(0)
       /\ out[k].lineItems["income"] = <<>>
       /\ out[k].fields["gross_profit"] = Num(300)
       /\ "gross_profit" \notin DOMAIN out[k].lineItems

-----------------------------------------------------------------------------
(* Repeated normalization.  One UnifiedETLService holds one instance of    *)
(* each normalizer and hands every fetched document to it; runs records    *)
(* each transformData call: the source, the document before and after the  *)
(* call, and the result.                                                   *)

MaxRuns == 3      \* transformData calls in one behaviour

RunQuickBooksDocs ==
  { [Columns |-> StandardColumns,
     Rows |-> << Row(G_Income, <<>>, <<LeafA, LeafB>>, TRUE, <<T_TotalIncome, V_500, V_600>>) >>],
    [Columns |-> StandardColumns,
     Rows |-> << Row(G_income, <<>>, <<LeafA>>, FALSE, <<>>) >>] }

RunRootfiDocs ==
  { << RootfiPeriod("2023-01-01", "2023-01-31", 7,
                    [revenue |-> Array(<<c>>), net_profit |-> Number(120)]) >> :
      c \in { Category(N_Sales, Number(1000), TRUE,
                       <<LineItem(N_ProductA, Number(600)), LineItem(N_RandD, Number(400))>>),
              Category(N_Sales, Number(250), TRUE, <<LineItem(N_RandD, Number(250))>>) } }

RunsInit ==
  /\ pc = "ready"
  /\ out = <<>>
  /\ work = NoWork
  /\ runs = <<>>
  /\ store = {}
  /\ call = NoCall
  /\ http = NoRequest
  /\ NoEtl
  /\ \/ source = "quickbooks" /\ doc \in RunQuickBooksDocs
     \/ source = "rootfi" /\ doc \in RunRootfiDocs

Run == [source |-> source, input |-> doc, inputAfter |-> doc', out |-> out']

\* processQuickBooksData: this.quickBooksETL.transformData(quickBooksData)
RepeatQuickBooks ==
  /\ QuickBooksCall
  /\ runs' = Append(runs, Run)
  /\ UNCHANGED <<store, call, http>>
  /\ UNCHANGED etlVars

\* processRootfiData: this.rootfiETL.transformData(rootfiData)
RepeatRootfi ==
  /\ RootfiCall
  /\ runs' = Append(runs, Run)
  /\ UNCHANGED <<store, call, http>>
  /\ UNCHANGED etlVars

\* the next document is fetched for one of the two normalizers
NextDocument ==
  /\ pc = "done"
  /\ Len(runs) < MaxRuns
  /\ \/ source' = "quickbooks" /\ doc' \in RunQuickBooksDocs
     \/ source' = "rootfi" /\ doc' \in RunRootfiDocs
  /\ pc' = "ready"
  /\ UNCHANGED <<work, out, runs, store, call, http>>
  /\ UNCHANGED etlVars

RunsNext == RepeatQuickBooks \/ RepeatRootfi \/ NextDocument

SpecRuns == RunsInit /\ [][RunsNext]_vars

-----------------------------------------------------------------------------
-----------------------------------------------------------------------------
(* DatabaseService.getCategoriesByDateRange (the category merger).         *)
(* A stored category is [id, name, value, categoryType, lineItems,         *)
(* reportPeriod] with reportPeriod = [id, startDate, endDate, company] and *)
(* company = [id, name].  Names and dates are character sequences.  value  *)
(* is the text the driver returns for a decimal(15,2) column, such as      *)
(* "100.00"; numbers computed from it are kept in hundredths.              *)

\* the digits of str from position i on that come before the next non-digit
RECURSIVE DigitRun(_, _)
DigitRun(str, i) ==
  IF i <= Len(str) /\ IsDigit(str[i]) THEN <<str[i]>> \o DigitRun(str, i + 1) ELSE <<>>

\* Number(text) for a decimal text with at most two fraction digits, in
\* hundredths: an optional sign, the integer digits, then "." and fraction
NumberOfDecimal(text) ==
  LET neg == Len(text) > 0 /\ text[1] = "-"
      body == IF neg THEN Tail(text) ELSE text
      whole == DigitRun(body, 1)
      hasPoint == Len(body) > Len(whole) /\ body[Len(whole) + 1] = "."
      frac == IF hasPoint THEN DigitRun(body, Len(whole) + 2) ELSE <<>>
      padded == IF Len(frac) = 0 THEN <<"0","0">>
                ELSE IF Len(frac) = 1 THEN frac \o <<"0">> ELSE SubSeq(frac, 1, 2)
  IN  (IF neg THEN -1 ELSE 1) * (100 * DigitsValue(whole) + DigitsValue(padded))

\* the last value replaces the sum
ReplaceValue(sum, text) == NumberOfDecimal(text)

\* mergedCategory.value += Number(category.value)
AddValue(sum, text) == sum + NumberOfDecimal(text)

\* every company is pushed, whether listed already or not
PushCompanyAlways(companies, company) == Append(companies, company)

\* if (!companies.some(c => c.id === company.id)) companies.push(company)
PushCompany(companies, company) ==
  IF \E i \in DOMAIN companies : companies[i].id = company.id
  THEN companies
  ELSE Append(companies, company)

L_merged == <<"m","e","r","g","e","d","_">>

\* mergedCategories.set(categoryName, {...})
NewMergedCategory(category) ==
  [ id |-> L_merged \o category.name,
    name |-> category.name,
    value |-> 0,
    categoryType |-> category.categoryType,
    lineItems |-> <<>>,
    reportPeriods |-> <<>>,
    companies |-> <<>> ]

\* the body of the loop after the entry was found or created
AddCategory(mergedCategory, category) ==
  [ mergedCategory EXCEPT
      !.value = AddValue(@, category.value),
      !.lineItems = IF Len(category.lineItems) > 0 THEN @ \o category.lineItems ELSE @,
      !.reportPeriods = Append(@, category.reportPeriod),
      !.companies = PushCompany(@, category.reportPeriod.company) ]

\* one iteration of `for (const category of categories)`; the Map is the
\* sequence of its values in insertion order
MergeStep(mergedCategories, category) ==
  IF \E i \in DOMAIN mergedCategories : mergedCategories[i].name = category.name
  THEN LET i == CHOOSE i \in DOMAIN mergedCategories :
                  mergedCategories[i].name = category.name
       IN  [ mergedCategories EXCEPT ![i] = AddCategory(@, category) ]
  ELSE Append(mergedCategories, AddCategory(NewMergedCategory(category), category))

RECURSIVE MergeCategories(_)
MergeCategories(categories) ==
  IF Len(categories) = 0 THEN <<>>
  ELSE MergeStep(MergeCategories(SubSeq(categories, 1, Len(categories) - 1)),
                 categories[Len(categories)])

\* the UTF-16 code unit of a character of names and dates
CodePoint(c) ==
  IF c \in Range(LowerChars) THEN 96 + IndexOf(LowerChars, c)
  ELSE IF c \in Range(UpperChars) THEN 64 + IndexOf(UpperChars, c)
  ELSE IF c \in Range(DigitChars) THEN 47 + IndexOf(DigitChars, c)
  ELSE IF c = "_" THEN 95
  ELSE IF c = "-" THEN 45
  ELSE 32

\* the primary collation weight of a character: punctuation before digits
\* before letters, letters without regard to case
PrimaryWeight(c) ==
  IF c \in Range(LowerChars) THEN 20 + IndexOf(LowerChars, c)
  ELSE IF c \in Range(UpperChars) THEN 20 + IndexOf(UpperChars, c)
  ELSE IF c \in Range(DigitChars) THEN 9 + IndexOf(DigitChars, c)
  ELSE IF c = "_" THEN 2
  ELSE IF c = "-" THEN 3
  ELSE 1

\* -1, 0 or 1 as the number sequence a comes before, with or after b
RECURSIVE CompareSeq(_, _)
CompareSeq(a, b) ==
  IF Len(a) = 0 THEN (IF Len(b) = 0 THEN 0 ELSE -1)
  ELSE IF Len(b) = 0 THEN 1
  ELSE IF a[1] < b[1] THEN -1
  ELSE IF a[1] > b[1] THEN 1
  ELSE CompareSeq(Tail(a), Tail(b))

CodePoints(str) == [ i \in 1..Len(str) |-> CodePoint(str[i]) ]

PrimaryWeights(str) == [ i \in 1..Len(str) |-> PrimaryWeight(str[i]) ]

\* lower case before upper case, decided at the first difference
CaseWeights(str) == [ i \in 1..Len(str) |-> IF str[i] \in Range(UpperChars) THEN 1 ELSE 0 ]

\* a.localeCompare(b) in the default locale
localeCompare(a, b) ==
  IF CompareSeq(PrimaryWeights(a), PrimaryWeights(b)) # 0
  THEN CompareSeq(PrimaryWeights(a), PrimaryWeights(b))
  ELSE CompareSeq(CaseWeights(a), CaseWeights(b))

\* comparison by code units (the "C" collation of the database)
OrdinalCompare(a, b) == CompareSeq(CodePoints(a), CodePoints(b))

\* x put into a sorted sequence behind the elements that do not come after it
InsertByName(sorted, x) ==
  LET n == Cardinality({ i \in DOMAIN sorted : localeCompare(sorted[i].name, x.name) <= 0 })
  IN  SubSeq(sorted, 1, n) \o <<x>> \o SubSeq(sorted, n + 1, Len(sorted))

\* x put behind the elements that do not come before it
InsertByNameDescending(sorted, x) ==
  LET n == Cardinality({ i \in DOMAIN sorted : localeCompare(sorted[i].name, x.name) >= 0 })
  IN  SubSeq(sorted, 1, n) \o <<x>> \o SubSeq(sorted, n + 1, Len(sorted))

RECURSIVE SortByNameDescending(_)
SortByNameDescending(values) ==
  IF Len(values) = 0 THEN <<>>
  ELSE InsertByNameDescending(SortByNameDescending(SubSeq(values, 1, Len(values) - 1)),
                              values[Len(values)])

\* .sort((a, b) => a.name.localeCompare(b.name)); the sort is stable
RECURSIVE SortByName(_)
SortByName(values) ==
  IF Len(values) = 0 THEN <<>>
  ELSE InsertByName(SortByName(SubSeq(values, 1, Len(values) - 1)), values[Len(values)])

\* the period starts on the requested start date, whatever its end
MatchesStartDateOnly(category, startDate, endDate) ==
  category.reportPeriod.startDate = startDate

\* where: { reportPeriod: { startDate: startDate, endDate: endDate } }
MatchesDateRange(category, startDate, endDate) ==
  /\ category.reportPeriod.startDate = startDate
  /\ category.reportPeriod.endDate = endDate

\* order: { name: "ASC" } under the collation of the database; rows of the
\* same name come in an order the database chooses
OrderedByName(rows, collation) ==
  \A i, j \in DOMAIN rows :
    i < j => IF collation = "C"
             THEN OrdinalCompare(rows[i].name, rows[j].name) <= 0
             ELSE localeCompare(rows[i].name, rows[j].name) <= 0

\* the results find(...) can return from the stored categories
FindCategories(stored, startDate, endDate) ==
  LET matching == { c \in stored : MatchesDateRange(c, startDate, endDate) }
      n == Cardinality(matching)
  IN  { rows \in [1..n -> matching] :
          /\ \A i, j \in 1..n : i # j => rows[i] # rows[j]
          /\ \E collation \in {"C", "locale"} : OrderedByName(rows, collation) }

\* getCategoriesByDateRange once find has returned categories
MergeAndSort(categories) == SortByName(MergeCategories(categories))

-----------------------------------------------------------------------------
(* GET /categories/by-date-range.  A query parameter is absent, a string   *)
(* or (for a repeated key) an array of strings.                            *)

Missing == [kind |-> "missing", s |-> <<>>, elems |-> <<>>]

Str(chars) == [kind |-> "string", s |-> chars, elems |-> <<>>]

Arr(elems) == [kind |-> "array", s |-> <<>>, elems |-> elems]

\* !param: undefined and "" are falsy, every array is truthy
Falsy(param) == param.kind = "missing" \/ (param.kind = "string" /\ Len(param.s) = 0)

RECURSIVE Join(_)
Join(elems) ==
  IF Len(elems) = 0 THEN <<>>
  ELSE IF Len(elems) = 1 THEN elems[1]
  ELSE elems[1] \o <<",">> \o Join(Tail(elems))

\* the string RegExp.prototype.test converts its argument to
StringOf(param) == IF param.kind = "array" THEN Join(param.elems) ELSE param.s

\* digits, "-", digits, "-", digits with groups of any length
DateRegexTestAnyWidth(str) ==
  LET a == DigitRun(str, 1)
      b == DigitRun(str, Len(a) + 2)
      c == DigitRun(str, Len(a) + Len(b) + 3)
  IN  /\ Len(a) > 0 /\ Len(b) > 0 /\ Len(c) > 0
      /\ Len(str) = Len(a) + Len(b) + Len(c) + 2
      /\ str[Len(a) + 1] = "-"
      /\ str[Len(a) + Len(b) + 2] = "-"

\* /^\d{4}-\d{2}-\d{2}$/.test(str)
DateRegexTest(str) ==
  /\ Len(str) = 10
  /\ \A i \in {1, 2, 3, 4, 6, 7, 9, 10} : IsDigit(str[i])
  /\ str[5] = "-"
  /\ str[8] = "-"

BadRequest(error, message) ==
  [phase |-> "answered", status |-> 400, success |-> FALSE, error |-> error,
   message |-> message, data |-> <<>>]

ServerError ==
  [phase |-> "answered", status |-> 500, success |-> FALSE,
   error |-> "Failed to retrieve categories by date range",
   message |-> "initialization failed", data |-> <<>>]

Ok(categories) ==
  [phase |-> "answered", status |-> 200, success |-> TRUE, error |-> "",
   message |-> "Categories retrieved and merged successfully", data |-> categories]

\* the call of the merger the handler makes, with what find returned
Called(startDate, endDate, categories) ==
  [made |-> TRUE, startDate |-> startDate, endDate |-> endDate,
   retrieved |-> categories, result |-> MergeAndSort(categories)]

\* the handler for one request: initialization, the two checks, the merger
CategoriesByDateRange(query, initialized) ==
  /\ http.phase = "none"
  /\ IF ~initialized
     THEN /\ http' = ServerError @@ [query |-> query, initialized |-> initialized]
          /\ call' = call
     ELSE IF Falsy(query.startDate) \/ Falsy(query.endDate)
     THEN /\ http' = BadRequest("Missing required parameters",
                                "Both startDate and endDate are required")
                       @@ [query |-> query, initialized |-> initialized]
          /\ call' = call
     ELSE IF ~DateRegexTest(StringOf(query.startDate))
               \/ ~DateRegexTest(StringOf(query.endDate))
     THEN /\ http' = BadRequest("Invalid date format",
                                "Dates must be in YYYY-MM-DD format")
                       @@ [query |-> query, initialized |-> initialized]
          /\ call' = call
     ELSE \E categories \in FindCategories(store, StringOf(query.startDate),
                                           StringOf(query.endDate)) :
            /\ call' = Called(StringOf(query.startDate), StringOf(query.endDate),
                              categories)
            /\ http' = Ok(call'.result) @@ [query |-> query, initialized |-> initialized]
  /\ UNCHANGED <<source, doc, work, out, pc, runs, store>>
  /\ UNCHANGED etlVars

-----------------------------------------------------------------------------
(* Stored categories and requests of the merge query.                      *)

MaxStored == 3    \* stored categories

D_Jan01 == <<"2","0","2","3","-","0","1","-","0","1">>
D_Jan15 == <<"2","0","2","3","-","0","1","-","1","5">>
D_Jan20 == <<"2","0","2","3","-","0","1","-","2","0">>
D_Jan31 == <<"2","0","2","3","-","0","1","-","3","1">>
D_Mar31 == <<"2","0","2","3","-","0","3","-","3","1">>
D_DayFirst == <<"0","1","-","0","1","-","2","0","2","3">>
D_ShortMonth == <<"2","0","2","3","-","1","-","3","1">>
D_Trailing == <<"2","0","2","3","-","0","1","-","3","1","x">>
D_Slashes == <<"2","0","2","3","/","0","1","/","3","1">>

K_income == <<"i","n","c","o","m","e">>
K_cogs == <<"c","o","g","s">>
K_expenses == <<"e","x","p","e","n","s","e","s">>
K_net_income == <<"n","e","t","_","i","n","c","o","m","e">>

Company(id, name) == [id |-> id, name |-> name]

CompanyA == Company(1, "CompanyA")
CompanyB == Company(2, "CompanyB")

ReportPeriod(id, startDate, endDate, company) ==
  [id |-> id, startDate |-> startDate, endDate |-> endDate, company |-> company]

\* two periods of one company with the same bounds, one of another company
\* with these bounds, one that contains them and one that lies inside them
Period1 == ReportPeriod(1, D_Jan01, D_Jan31, CompanyA)
Period2 == ReportPeriod(2, D_Jan01, D_Jan31, CompanyA)
Period3 == ReportPeriod(3, D_Jan01, D_Jan31, CompanyB)
Period4 == ReportPeriod(4, D_Jan01, D_Mar31, CompanyB)
Period5 == ReportPeriod(5, D_Jan15, D_Jan20, CompanyA)

FinancialLineItem(id, name, value) == [id |-> id, name |-> name, value |-> value]

FinancialCategory(id, name, value, type, lineItems, period) ==
  [id |-> id, name |-> name, value |-> value, categoryType |-> type,
   lineItems |-> lineItems, reportPeriod |-> period]

StoredCategories ==
  { FinancialCategory(1, K_income, <<"1","0","0",".","0","0">>, "income",
      << FinancialLineItem(1, "fees", <<"6","0",".","0","0">>),
         FinancialLineItem(2, "rent", <<"4","0",".","0","0">>) >>, Period1),
    FinancialCategory(2, K_income, <<"2","5","0",".","0","0">>, "income",
      << FinancialLineItem(3, "fees", <<"2","5","0",".","0","0">>) >>, Period2),
    FinancialCategory(3, K_income, <<"-","4","0",".","5","0">>, "income", <<>>, Period3),
    FinancialCategory(4, K_cogs, <<"0",".","0","0">>, "expense", <<>>, Period1),
    FinancialCategory(5, K_cogs, <<"7",".","2","5">>, "expense",
      << FinancialLineItem(4, "materials", <<"7",".","2","5">>) >>, Period3),
    FinancialCategory(6, K_income, <<"9","9","9",".","0","0">>, "income",
      << FinancialLineItem(5, "fees", <<"9","9","9",".","0","0">>) >>, Period4),
    FinancialCategory(7, K_expenses, <<"5",".","0","0">>, "expense", <<>>, Period5),
    FinancialCategory(8, K_net_income, <<"1",".","0","0">>, "income",
      << FinancialLineItem(6, "net", <<"1",".","0","0">>) >>, Period3),
    FinancialCategory(9, K_expenses, <<"3",".","0","0">>, "expense",
      << FinancialLineItem(7, "rent", <<"3",".","0","0">>) >>, Period1) }

Stores == { S \in SUBSET StoredCategories : Cardinality(S) <= MaxStored }

Query(startDate, endDate) == [startDate |-> startDate, endDate |-> endDate]

Queries ==
  { Query(Str(D_Jan01), Str(D_Jan31)),
    Query(Str(D_Jan01), Str(D_Mar31)),
    Query(Str(D_Jan15), Str(D_Jan20)),
    Query(Str(D_Jan31), Str(D_Jan01)),
    Query(Str(D_Jan15), Str(D_Jan31)),
    Query(Missing, Str(D_Jan31)),
    Query(Str(D_Jan01), Missing),
    Query(Missing, Missing),
    Query(Str(<<>>), Str(D_Jan31)),
    Query(Str(D_DayFirst), Str(D_Jan31)),
    Query(Str(D_Jan01), Str(D_ShortMonth)),
    Query(Str(D_Jan01), Str(D_Trailing)),
    Query(Str(D_Slashes), Str(D_Slashes)),
    Query(Arr(<<D_Jan01, D_Jan01>>), Str(D_Jan31)) }

MergeInit ==
  /\ source = "none"
  /\ doc = <<>>
  /\ work = NoWork
  /\ out = <<>>
  /\ pc = "ready"
  /\ runs = <<>>
  /\ store \in Stores
  /\ call = NoCall
  /\ http = NoRequest
  /\ NoEtl

GetCategoriesByDateRange ==
  \E query \in Queries, initialized \in BOOLEAN : CategoriesByDateRange(query, initialized)

MergeNext == GetCategoriesByDateRange

SpecMerge == MergeInit /\ [][MergeNext]_vars

-----------------------------------------------------------------------------
(* Vocabulary of the merge properties.                                     *)

\* the stored values in hundredths, by category id
Hundredths(category) ==
  CASE category.id = 1 -> 10000
    [] category.id = 2 -> 25000
    [] category.id = 3 -> -4050
    [] category.id = 4 -> 0
    [] category.id = 5 -> 725
    [] category.id = 6 -> 99900
    [] category.id = 7 -> 500
    [] category.id = 8 -> 100
    [] category.id = 9 -> 300

\* the retrieved categories of one name, in retrieval order
Contributing(name) ==
  LET Named(c) == c.name = name
  IN  SelectSeq(call.retrieved, Named)

RECURSIVE TotalOf(_)
TotalOf(categories) ==
  IF categories = <<>> THEN 0
  ELSE Hundredths(Head(categories)) + TotalOf(Tail(categories))

RECURSIVE LineItemsOf(_)
LineItemsOf(categories) ==
  IF categories = <<>> THEN <<>>
  ELSE Head(categories).lineItems \o LineItemsOf(Tail(categories))

RECURSIVE LineItemCount(_)
LineItemCount(categories) ==
  IF categories = <<>> THEN 0
  ELSE Len(Head(categories).lineItems) + LineItemCount(Tail(categories))

RetrievedNames == { call.retrieved[i].name : i \in DOMAIN call.retrieved }

-----------------------------------------------------------------------------
(* C16.  Merge correctness: for any store and date pair the result has for *)
(* each category name exactly one MergedCategory, whose value is the sum   *)
(* of the values of all matching stored categories of that name and whose  *)
(* lineItems is the concatenation of their line items in retrieval order,  *)
(* nothing removed, so that its length is the sum of their counts.         *)
C16_MergeCorrectness ==
  call.made =>
    /\ { call.result[i].name : i \in DOMAIN call.result } = RetrievedNames
    /\ \A name \in RetrievedNames :
         Cardinality({ i \in DOMAIN call.result : call.result[i].name = name }) = 1
    /\ \A i \in DOMAIN call.result :
         LET m == call.result[i]
         IN  /\ m.value = TotalOf(Contributing(m.name))
             /\ m.lineItems = LineItemsOf(Contributing(m.name))
             /\ Len(m.lineItems) = LineItemCount(Contributing(m.name))

\* three stored categories named income, of 100.00, 250.00 and -40.50 with
\* two, one and no line items, merged into one of 309.50 with three
C16_Witness ==
  /\ call.made
  /\ Len(call.retrieved) = 3
  /\ Len(call.result) = 1
  /\ call.result[1].name = K_income
  /\ call.result[1].value = 30950
  /\ Len(call.result[1].lineItems) = 3
  /\ \E i, j \in 1..3 : i < j /\ call.retrieved[i].id = 2 /\ call.retrieved[j].id = 1

-----------------------------------------------------------------------------
(* C17.  Merge company deduplication: in every MergedCategory companies    *)
(* holds each company that owns a contributing period exactly once, no two *)
(* entries with the same company id, while reportPeriods has one entry per *)
(* contributing category.                                                  *)
C17_CompaniesDeduplicated ==
  call.made =>
    \A i \in DOMAIN call.result :
      LET m == call.result[i]
          from == Contributing(m.name)
      IN  /\ \A a, b \in DOMAIN m.companies :
                a # b => m.companies[a].id # m.companies[b].id
          /\ { m.companies[a] : a \in DOMAIN m.companies }
               = { from[j].reportPeriod.company : j \in DOMAIN from }
          /\ Len(m.reportPeriods) = Len(from)
          /\ \A j \in DOMAIN from : m.reportPeriods[j] = from[j].reportPeriod

\* three contributing periods, two of them of one company
C17_Witness ==
  /\ call.made
  /\ Len(call.result) = 1
  /\ Len(call.result[1].reportPeriods) = 3
  /\ Len(call.result[1].companies) = 2
  /\ { call.result[1].companies[a].id : a \in {1, 2} } = {1, 2}

-----------------------------------------------------------------------------
(* C18.  Merge result order: the returned sequence is sorted ascending by  *)
(* category name (comparison by code units) and its names are pairwise     *)
(* distinct, in whatever order the categories were retrieved or stored.    *)
C18_SortedByName ==
  call.made =>
    \A i, j \in DOMAIN call.result :
      i < j => CompareSeq(CodePoints(call.result[i].name), CodePoints(call.result[j].name)) = -1

\* three names in the result
C18_Witness ==
  /\ call.made
  /\ Len(call.result) = 3
  /\ call.result[1].name = K_cogs
  /\ call.result[2].name = K_income
  /\ call.result[3].name = K_net_income

-----------------------------------------------------------------------------
(* C19.  Merge selection is an exact match: a stored category contributes  *)
(* if and only if its period's startDate equals the requested startDate    *)
(* and its endDate the requested endDate; a period that overlaps the range *)
(* or lies inside it contributes nothing; when nothing matches the result  *)
(* is the empty sequence and no error is raised.                           *)
C19_ExactMatch ==
  call.made =>
    LET exact == { c \in store : /\ c.reportPeriod.startDate = call.startDate
                                 /\ c.reportPeriod.endDate = call.endDate }
    IN  /\ { call.retrieved[i] : i \in DOMAIN call.retrieved } = exact
        /\ Len(call.retrieved) = Cardinality(exact)
        /\ \A i \in DOMAIN call.result :
             { call.result[i].reportPeriods[j].id : j \in DOMAIN call.result[i].reportPeriods }
               \subseteq { c.reportPeriod.id : c \in exact }
        /\ exact = {} => /\ call.result = <<>>
                         /\ http.status = 200
                         /\ http.success
                         /\ http.data = <<>>

\* January is asked for; the store holds a period that contains January and
\* one inside it, but none that is January: nothing contributes, the answer
\* is the empty sequence with status 200
C19_Witness ==
  /\ call.made
  /\ call.startDate = D_Jan01 /\ call.endDate = D_Jan31
  /\ { c.reportPeriod.id : c \in store } = {4, 5}
  /\ call.retrieved = <<>>
  /\ call.result = <<>>
  /\ http.status = 200
  /\ http.data = <<>>

-----------------------------------------------------------------------------
\* the parameter is a string of four digits, "-", two digits, "-", two digits
HasDateForm(param) ==
  /\ param.kind = "string"
  /\ [ i \in DOMAIN param.s |-> IF IsDigit(param.s[i]) THEN "d" ELSE param.s[i] ]
       = <<"d","d","d","d","-","d","d","-","d","d">>

WellFormed(query) == HasDateForm(query.startDate) /\ HasDateForm(query.endDate)

(* C20 (as stated).  Request validation precedes the merger: if either     *)
(* date is missing or not of the form four digits, dash, two digits, dash, *)
(* two digits, the request is answered with a 400 format or parameter      *)
(* error and the merger is never invoked; the merger is invoked only with  *)
(* two dates of that form.                                                 *)
C20_ValidationPrecedesMerger ==
  http.phase = "answered" =>
    /\ ~WellFormed(http.query) => (http.status = 400 /\ ~call.made)
    /\ call.made => /\ WellFormed(http.query)
                    /\ call.startDate = http.query.startDate.s
                    /\ call.endDate = http.query.endDate.s

(* C20 (amended).  The handler first initializes the application; if that  *)
(* fails the request is answered with 500 whatever its dates.  Otherwise a *)
(* missing or empty date gives 400 "Missing required parameters", a date   *)
(* not of the form gives 400 "Invalid date format".  In all three cases    *)
(* the merger is not invoked; it is invoked only with two dates of the     *)
(* form, exactly as they were sent.                                        *)
C20_ValidationAfterInitialization ==
  http.phase = "answered" =>
    /\ ~http.initialized => (http.status = 500 /\ ~call.made)
    /\ (http.initialized /\ ~WellFormed(http.query)) =>
         /\ http.status = 400
         /\ ~http.success
         /\ ~call.made
         /\ http.error = IF Falsy(http.query.startDate) \/ Falsy(http.query.endDate)
                         THEN "Missing required parameters"
                         ELSE "Invalid date format"
    /\ (http.initialized /\ WellFormed(http.query)) => (call.made /\ http.status = 200)
    /\ call.made => /\ WellFormed(http.query)
                    /\ call.startDate = http.query.startDate.s
                    /\ call.endDate = http.query.endDate.s

\* "01-01-2023" sent as the start date to a store that holds January
C20_Witness ==
  /\ http.phase = "answered"
  /\ http.initialized
  /\ http.query.startDate = Str(D_DayFirst)
  /\ http.query.endDate = Str(D_Jan31)
  /\ \E c \in store : c.reportPeriod = Period1
  /\ http.status = 400
  /\ http.error = "Invalid date format"
  /\ ~call.made

-----------------------------------------------------------------------------
(* UnifiedETLService and the writing operations of DatabaseService.        *)
(* A text is a sequence of pieces whose concatenation is the string.  A    *)
(* thrown value is [name, message]: an Error object of that name, or, with *)
(* name "", a value that is no Error and whose String() is message.        *)

ErrorOf(name, message) == [name |-> name, message |-> message]

\* `${error}`: Error.prototype.toString gives "name: message", or the name
\* alone when the message is empty
StringOfError(error) ==
  IF error.name = "" THEN error.message
  ELSE IF error.message = <<>> THEN <<error.name>>
  ELSE <<error.name, ": ">> \o error.message

\* error instanceof Error ? error.message : String(error)
MessageOfError(error) == error.message

\* what fetch, the status check or response.json() can throw
FetchCauses ==
  { ErrorOf("Error", <<"HTTP error! status: ", "404">>),
    ErrorOf("SyntaxError", <<"Unexpected end of JSON input">>) }

\* the catch of fetchJsonFromUrl
fetchJsonFromUrlError(cause) ==
  ErrorOf("Error", <<"Failed to fetch data from URL: ">> \o StringOfError(cause))

SourceName(src) == IF src = "quickbooks" THEN "QuickBooks" ELSE "Rootfi"

CompanyNameOf(src) == IF src = "quickbooks" THEN "CompanyA" ELSE "CompanyB"

\* the error is reported without the prefix of the loader
LoadErrorUnwrapped(src, error) == error

\* the catch of loadQuickBooksData / loadRootfiData
LoadError(src, error) ==
  ErrorOf("Error", <<"Failed to load ", SourceName(src), " data: ">> \o StringOfError(error))

NoStatistics == [companies |-> 0, reportPeriods |-> 0, categories |-> 0, lineItems |-> 0]

\* the catch block returns the flag and the message only
FailureWithoutErrors(src, error) ==
  [ success |-> FALSE,
    message |-> <<SourceName(src), " data processing failed", ": ">> \o StringOfError(error),
    hasResults |-> FALSE, results |-> NoStatistics,
    hasErrors |-> FALSE, errors |-> <<>> ]

\* the result of the catch block of processQuickBooksData / processRootfiData
Failure(src, error) ==
  [ success |-> FALSE,
    message |-> <<SourceName(src), " data processing failed", ": ">> \o StringOfError(error),
    hasResults |-> FALSE, results |-> NoStatistics,
    hasErrors |-> TRUE, errors |-> <<MessageOfError(error)>> ]

\* the result of the try block of processQuickBooksData / processRootfiData
Success(src, statistics) ==
  [ success |-> TRUE,
    message |-> <<SourceName(src), " data processed successfully">>,
    hasResults |-> TRUE, results |-> statistics,
    hasErrors |-> FALSE, errors |-> <<>> ]

-----------------------------------------------------------------------------
(* Fetched documents.  A QuickBooks response is [kind, doc]: a document,   *)
(* or JSON without data.Columns ("malformed").  A Rootfi response is       *)
(* [kind, dataIsArray, data]: JSON null, or an object whose data is an     *)
(* array of elements or something else; an element is null or a period    *)
(* [period_start, period_end, rootfi_company_id, data], where "" is an     *)
(* empty or missing date and rootfi_company_id a value [kind, v, items].   *)

QuickBooksResponse(kind, d) == [kind |-> kind, doc |-> d]

RootfiResponse(kind, dataIsArray, data) ==
  [kind |-> kind, dataIsArray |-> dataIsArray, data |-> data]

RootfiElement(isNull, start, end, companyId, data) ==
  [ isNull |-> isNull, period_start |-> start, period_end |-> end,
    rootfi_company_id |-> companyId, data |-> data ]

NullElement == RootfiElement(TRUE, "", "", Undefined, <<>>)

\* rootfiData.data.every(...): the callback is called in order until it
\* returns a falsy value; it throws a TypeError on an element that is null
RECURSIVE EveryPeriod(_)
EveryPeriod(data) ==
  IF data = <<>> THEN "true"
  ELSE IF Head(data).isNull THEN "throws"
  ELSE IF Head(data).period_start = "" \/ Head(data).period_end = ""
            \/ ~isValidNumber(Head(data).rootfi_company_id) THEN "false"
  ELSE EveryPeriod(Tail(data))

\* RootfiETLService.validateData: "true", "false", or "throws"
validateData(rootfiData) ==
  IF rootfiData.kind = "null" \/ ~rootfiData.dataIsArray THEN "false"
  ELSE EveryPeriod(rootfiData.data)

TypeErrorNull ==
  ErrorOf("TypeError", <<"Cannot read properties of null (reading 'period_start')">>)

TypeErrorUndefined ==
  ErrorOf("TypeError", <<"Cannot read properties of undefined (reading 'Columns')">>)

InvalidStructure == ErrorOf("Error", <<"Invalid Rootfi data structure">>)

\* the synchronous part of a pipeline between the fetch and the save: the
\* stages it invokes, and the batch it hands to the save or what it throws
Prepared(stages, threw, error, batch) ==
  [stages |-> stages, threw |-> threw, error |-> error, batch |-> batch]

NoError == ErrorOf("", <<>>)

\* processQuickBooksData, line by line after the load
PrepareQuickBooks(response) ==
  IF response.kind = "malformed"
  THEN Prepared(<<"normalize">>, TRUE, TypeErrorUndefined, <<>>)
  ELSE Prepared(<<"normalize">>, FALSE, NoError, QuickBooksTransformData(response.doc))

\* processRootfiData, line by line after the load
PrepareRootfi(response) ==
  LET valid == validateData(response)
  IN  IF valid = "throws" THEN Prepared(<<"validate">>, TRUE, TypeErrorNull, <<>>)
      ELSE IF valid = "false" THEN Prepared(<<"validate">>, TRUE, InvalidStructure, <<>>)
      ELSE Prepared(<<"validate", "normalize">>, FALSE, NoError,
                    RootfiTransformData(response.data))

-----------------------------------------------------------------------------
(* DatabaseService.saveCompanyData, getStatistics and clearAllData.  The   *)
(* database is [companies, periods, categories]: the committed rows, a     *)
(* category row carrying its line items.  An id is the company's number    *)
(* from the sequence, followed by the position of the row in the batch.    *)

K_gross_profit == <<"g","r","o","s","s","_","p","r","o","f","i","t">>
K_operating_income ==
  <<"o","p","e","r","a","t","i","n","g","_","i","n","c","o","m","e">>
K_other_income == <<"o","t","h","e","r","_","i","n","c","o","m","e">>
K_other_expenses == <<"o","t","h","e","r","_","e","x","p","e","n","s","e","s">>
K_net_other_income ==
  <<"n","e","t","_","o","t","h","e","r","_","i","n","c","o","m","e">>

\* the characters of each category key
CategoryName ==
  [ key \in CanonicalKeys |->
      CASE key = "income" -> K_income
        [] key = "cogs" -> K_cogs
        [] key = "gross_profit" -> K_gross_profit
        [] key = "expenses" -> K_expenses
        [] key = "operating_income" -> K_operating_income
        [] key = "other_income" -> K_other_income
        [] key = "other_expenses" -> K_other_expenses
        [] key = "net_other_income" -> K_net_other_income
        [] key = "net_income" -> K_net_income ]

RECURSIVE DigitsOf(_)
DigitsOf(n) ==
  IF n < 10 THEN <<DigitChars[n + 1]>>
  ELSE DigitsOf(n \div 10) \o <<DigitChars[(n % 10) + 1]>>

\* the text a decimal(15,2) column returns for the whole number n
DecimalText(n) ==
  (IF n < 0 THEN <<"-">> ELSE <<>>) \o DigitsOf(IF n < 0 THEN 0 - n ELSE n)
    \o <<".", "0", "0">>

\* (period[categoryKey] as number) || 0
CategoryValue(period, categoryKey) ==
  IF categoryKey \in DOMAIN period.fields THEN OrZero(period.fields[categoryKey])
  ELSE Num(0)

getCategoryType(categoryKey) ==
  IF categoryKey \in {"income", "other_income"} THEN "income"
  ELSE IF categoryKey \in {"cogs", "expenses", "other_expenses"} THEN "expense"
  ELSE IF categoryKey \in {"gross_profit", "operating_income", "net_other_income",
                           "net_income"} THEN "profit"
  ELSE "other"

\* period.lineItems && period.lineItems[categoryKey]
LineItemsData(period, categoryKey) ==
  IF period.hasLineItems /\ categoryKey \in DOMAIN period.lineItems
  THEN period.lineItems[categoryKey] ELSE <<>>

\* a decimal(15,2) column takes a finite number only
Storable(periodData) ==
  \A i \in DOMAIN periodData :
    \A j \in DOMAIN FINANCIAL_CATEGORY_KEYS :
      LET key == FINANCIAL_CATEGORY_KEYS[j]
          items == LineItemsData(periodData[i], key)
      IN  /\ CategoryValue(periodData[i], key).kind = "num"
          /\ \A n \in DOMAIN items : items[n].value.kind = "num"

LineItemRows(categoryId, period, categoryKey) ==
  LET items == LineItemsData(period, categoryKey)
  IN  [ n \in DOMAIN items |->
          FinancialLineItem(categoryId \o <<n>>, items[n].key,
                            DecimalText(items[n].value.v)) ]

\* a category is built only for the fields the period record has
CategoryRowsOfFields(reportPeriod, period) ==
  { FinancialCategory(reportPeriod.id \o <<j>>,
                      CategoryName[FINANCIAL_CATEGORY_KEYS[j]],
                      DecimalText(CategoryValue(period, FINANCIAL_CATEGORY_KEYS[j]).v),
                      getCategoryType(FINANCIAL_CATEGORY_KEYS[j]),
                      LineItemRows(reportPeriod.id \o <<j>>, period,
                                   FINANCIAL_CATEGORY_KEYS[j]),
                      reportPeriod) :
      j \in { i \in DOMAIN FINANCIAL_CATEGORY_KEYS :
                FINANCIAL_CATEGORY_KEYS[i] \in DOMAIN period.fields } }

\* the loop over FINANCIAL_CATEGORY_KEYS for one period
CategoryRows(reportPeriod, period) ==
  { FinancialCategory(reportPeriod.id \o <<j>>,
                      CategoryName[FINANCIAL_CATEGORY_KEYS[j]],
                      DecimalText(CategoryValue(period, FINANCIAL_CATEGORY_KEYS[j]).v),
                      getCategoryType(FINANCIAL_CATEGORY_KEYS[j]),
                      LineItemRows(reportPeriod.id \o <<j>>, period,
                                   FINANCIAL_CATEGORY_KEYS[j]),
                      reportPeriod) :
      j \in DOMAIN FINANCIAL_CATEGORY_KEYS }

ReportPeriodRow(company, i, period) ==
  ReportPeriod(<<company.id, i>>, period.startDate, period.endDate, company)

\* the rows saveCompanyData builds for a batch
SavedRows(companyId, companyName, periodData) ==
  LET company == Company(companyId, companyName)
  IN  [ companies |-> {company},
        periods |-> { ReportPeriodRow(company, i, periodData[i]) : i \in DOMAIN periodData },
        categories |-> UNION { CategoryRows(ReportPeriodRow(company, i, periodData[i]),
                                            periodData[i]) : i \in DOMAIN periodData } ]

\* a company of the same name is replaced by the new one with its rows
InsertReplacing(database, rows) ==
  LET names == { x.name : x \in rows.companies }
  IN  [ companies |-> { x \in database.companies : x.name \notin names }
                        \cup rows.companies,
        periods |-> { p \in database.periods : p.company.name \notin names }
                      \cup rows.periods,
        categories |-> { x \in database.categories :
                           x.reportPeriod.company.name \notin names }
                         \cup rows.categories ]

Insert(database, rows) ==
  [ companies |-> database.companies \cup rows.companies,
    periods |-> database.periods \cup rows.periods,
    categories |-> database.categories \cup rows.categories ]

Delete(database, rows) ==
  [ companies |-> database.companies \ rows.companies,
    periods |-> database.periods \ rows.periods,
    categories |-> database.categories \ rows.categories ]

\* the statements of the transaction, then getStatistics and the commit
SaveStages == <<"company", "periods", "categories", "lineItems", "statistics">>

\* the rows written when the stage failAt throws: the first save inserts
\* the company, the second the periods and, by cascade, their categories
\* and line items
WrittenBefore(rows, failAt) ==
  IF failAt = "company" THEN EmptyDb
  ELSE IF failAt = "periods" THEN [EmptyDb EXCEPT !.companies = rows.companies]
  ELSE rows

\* every statement is committed on its own
WrittenThrough(database, rows, failAt) == Insert(database, WrittenBefore(rows, failAt))

\* AppDataSource.manager.transaction: a throw inside the callback rolls
\* every statement back
RolledBack(database, rows, failAt) == database

RECURSIVE SumOfLineItems(_)
SumOfLineItems(categories) ==
  IF categories = {} THEN 0
  ELSE LET c == CHOOSE x \in categories : TRUE
       IN  Len(c.lineItems) + SumOfLineItems(categories \ {c})

\* getStatistics: the four counts of the committed rows
Statistics(database) ==
  [ companies |-> Cardinality(database.companies),
    reportPeriods |-> Cardinality(database.periods),
    categories |-> Cardinality(database.categories),
    lineItems |-> SumOfLineItems(database.categories) ]

QueryFailed == ErrorOf("QueryFailedError", <<"Connection terminated unexpectedly">>)

OutOfRange == ErrorOf("QueryFailedError", <<"numeric field overflow">>)

-----------------------------------------------------------------------------
(* The operations.  A client runs one operation at a time; the steps of    *)
(* different clients interleave at the awaits: the fetch, the statements   *)
(* of a transaction with getStatistics, and the commit.                    *)

MaxOps == 3    \* operations started by one caller

MaxConcurrentOps == 2    \* operations started by two callers

Event(src, stage) == [src |-> src, stage |-> stage]

Events(src, stages) == [ i \in DOMAIN stages |-> Event(src, stages[i]) ]

Saved(src, companyId, periodData, committed) ==
  [src |-> src, companyId |-> companyId, periodData |-> periodData, committed |-> committed]

\* results?.companies || 0
CountOf(result, field) == IF result.hasResults THEN result.results[field] ELSE 0

\* errors || []
ErrorsOf(result) == IF result.hasErrors THEN result.errors ELSE <<>>

\* only the errors of the first pipeline that failed are reported
processAllDataResultFirstFailure(quickBooksResult, rootfiResult) ==
  IF ~quickBooksResult.success \/ ~rootfiResult.success
  THEN [ success |-> FALSE,
         message |-> <<"Unified data processing failed">>,
         hasResults |-> FALSE, results |-> NoStatistics,
         hasErrors |-> TRUE,
         errors |-> IF ~quickBooksResult.success THEN ErrorsOf(quickBooksResult)
                    ELSE ErrorsOf(rootfiResult) ]
  ELSE [ success |-> TRUE,
         message |-> <<"All data processed successfully">>,
         hasResults |-> TRUE,
         results |-> [ f \in DOMAIN NoStatistics |->
                         CountOf(quickBooksResult, f) + CountOf(rootfiResult, f) ],
         hasErrors |-> FALSE, errors |-> <<>> ]

\* processAllData once both pipelines have returned
processAllDataResult(quickBooksResult, rootfiResult) ==
  IF ~quickBooksResult.success \/ ~rootfiResult.success
  THEN [ success |-> FALSE,
         message |-> <<"Unified data processing failed">>,
         hasResults |-> FALSE, results |-> NoStatistics,
         hasErrors |-> TRUE,
         errors |-> ErrorsOf(quickBooksResult) \o ErrorsOf(rootfiResult) ]
  ELSE [ success |-> TRUE,
         message |-> <<"All data processed successfully">>,
         hasResults |-> TRUE,
         results |-> [ f \in DOMAIN NoStatistics |->
                         CountOf(quickBooksResult, f) + CountOf(rootfiResult, f) ],
         hasErrors |-> FALSE, errors |-> <<>> ]

\* the Rootfi pipeline is not started after a failure of the first
AfterSourceStopping(r, result) ==
  LET returned == [ r EXCEPT !.log = Append(@, Event(r.src, "result")),
                             !.batch = <<>>, !.statistics = NoStatistics ]
  IN  IF r.op \in {"quickbooks", "rootfi"}
      THEN [returned EXCEPT !.result = <<result>>, !.pc = "done"]
      ELSE IF r.src = "quickbooks" /\ result.success
      THEN [returned EXCEPT !.qb = <<result>>, !.src = "rootfi", !.pc = "fetch"]
      ELSE IF r.src = "quickbooks"
      THEN [returned EXCEPT !.qb = <<result>>, !.result = <<result>>, !.pc = "done"]
      ELSE [returned EXCEPT !.rootfi = <<result>>,
                            !.result = <<processAllDataResult(r.qb[1], result)>>,
                            !.pc = "done"]

\* a pipeline returns its result: the operation is over, or processAllData
\* goes on with the Rootfi pipeline, or it combines the two results
AfterSource(r, result) ==
  LET returned == [ r EXCEPT !.log = Append(@, Event(r.src, "result")),
                             !.batch = <<>>, !.statistics = NoStatistics ]
  IN  IF r.op \in {"quickbooks", "rootfi"}
      THEN [returned EXCEPT !.result = <<result>>, !.pc = "done"]
      ELSE IF r.src = "quickbooks"
      THEN [returned EXCEPT !.qb = <<result>>, !.src = "rootfi", !.pc = "fetch"]
      ELSE [returned EXCEPT !.rootfi = <<result>>,
                            !.result = <<processAllDataResult(r.qb[1], result)>>,
                            !.pc = "done"]

Operations == {"quickbooks", "rootfi", "all", "refresh", "clear"}

\* a route handler or a caller of the application starts an operation
Begin(c, op, limit) ==
  /\ req[c].pc \in {"idle", "done"}
  /\ ops < limit
  /\ ops' = ops + 1
  /\ req' = [ req EXCEPT ![c] =
                [ Idle EXCEPT !.op = op,
                              !.pc = IF op \in {"refresh", "clear"} THEN "clear" ELSE "fetch",
                              !.src = IF op = "clear" THEN "none"
                                      ELSE IF op = "rootfi" THEN "rootfi"
                                      ELSE "quickbooks" ] ]
  /\ UNCHANGED <<db, nextId>>

\* the fetch of the pipeline fails
FetchFails(c) ==
  /\ req[c].pc = "fetch"
  /\ \E cause \in FetchCauses :
       LET rejection == fetchJsonFromUrlError(cause)
           r == [ req[c] EXCEPT
                    !.log = Append(@, Event(req[c].src, "fetch")),
                    !.rejected = Append(@, [src |-> req[c].src, error |-> rejection]) ]
       IN  req' = [ req EXCEPT ![c] =
                      AfterSource(r, Failure(r.src, LoadError(r.src, rejection))) ]
  /\ UNCHANGED <<db, nextId, ops>>

\* the pipeline goes on with what was fetched, up to the call of the save
Prepare(c, prepared) ==
  LET r == [ req[c] EXCEPT
               !.log = Append(@, Event(req[c].src, "fetch"))
                         \o Events(req[c].src, prepared.stages) ]
  IN  /\ req' = [ req EXCEPT ![c] =
                    IF prepared.threw THEN AfterSource(r, Failure(r.src, prepared.error))
                    ELSE [r EXCEPT !.batch = prepared.batch, !.pc = "save"] ]
      /\ UNCHANGED <<db, nextId, ops>>

\* the responses of the QuickBooks URL: one period with a line item, two
\* periods with summaries and line items, and JSON of another shape
QuickBooksOnePeriod ==
  [ Columns |-> <<ColAccount, ColJan>>,
    Rows |-> << Row(G_Income, <<>>, <<Leaf(T_Fees, <<V_100>>)>>, TRUE,
                    <<T_TotalIncome, V_100>>) >> ]

QuickBooksTwoPeriods ==
  [ Columns |-> StandardColumns,
    Rows |-> << Row(G_Income, <<>>, <<LeafA, LeafB>>, TRUE, <<T_TotalIncome, V_500, V_600>>),
                Row(G_NetIncome, <<>>, <<>>, TRUE, <<T_NetIncome, V_neg5, V_abc>>) >> ]

QuickBooksResponses ==
  { QuickBooksResponse("document", QuickBooksOnePeriod),
    QuickBooksResponse("document", QuickBooksTwoPeriods),
    QuickBooksResponse("malformed", [Columns |-> <<>>, Rows |-> <<>>]) }

\* the responses of the Rootfi URL
RootfiJanuary ==
  RootfiElement(FALSE, "2023-01-01", "2023-01-31", Number(7),
    [ revenue |-> Array(<< Category(N_Sales, Number(1000), TRUE,
                                    << LineItem(N_ProductA, Number(600)),
                                       LineItem(N_RandD, Number(400)) >>),
                           Category(N_Sales, Number(250), TRUE,
                                    <<LineItem(N_RandD, Number(250))>>) >>),
      taxes |-> Array(<<Category(N_Sales, Number(15), TRUE,
                                 <<LineItem(N_Sales, Number(15))>>)>>),
      net_profit |-> Number(120) ])

RootfiNoStart == RootfiElement(FALSE, "", "2023-01-31", Number(7), <<>>)

RootfiNoEnd == RootfiElement(FALSE, "2023-01-01", "", Number(7), <<>>)

RootfiNoCompany == RootfiElement(FALSE, "2023-01-01", "2023-01-31", Undefined, <<>>)

RootfiTextCompany ==
  RootfiElement(FALSE, "2023-01-01", "2023-01-31", [kind |-> "str", v |-> 0, items |-> <<>>],
                <<>>)

RootfiResponses ==
  { RootfiResponse("object", TRUE, <<RootfiJanuary>>),
    RootfiResponse("object", TRUE, <<>>),
    RootfiResponse("null", FALSE, <<>>),
    RootfiResponse("object", FALSE, <<>>),
    RootfiResponse("object", TRUE, <<RootfiJanuary, RootfiNoStart>>),
    RootfiResponse("object", TRUE, <<RootfiNoEnd>>),
    RootfiResponse("object", TRUE, <<RootfiNoCompany>>),
    RootfiResponse("object", TRUE, <<RootfiTextCompany>>),
    RootfiResponse("object", TRUE, <<NullElement>>),
    RootfiResponse("object", TRUE, <<RootfiJanuary, NullElement>>),
    RootfiResponse("object", TRUE, <<RootfiNoStart, NullElement>>) }

\* processQuickBooksData after the fetch resolved
FetchQuickBooks(c) ==
  /\ req[c].pc = "fetch"
  /\ req[c].src = "quickbooks"
  /\ \E response \in QuickBooksResponses : Prepare(c, PrepareQuickBooks(response))

\* processRootfiData after the fetch resolved
FetchRootfi(c) ==
  /\ req[c].pc = "fetch"
  /\ req[c].src = "rootfi"
  /\ \E response \in RootfiResponses : Prepare(c, PrepareRootfi(response))

\* saveCompanyData up to the return of getStatistics: the statements run in
\* a transaction whose rows no other connection sees, and getStatistics
\* counts, on a connection of its own, the rows committed so far.  The ids
\* of the rows are unique; the model numbers a company when it commits.
Save(c) ==
  /\ req[c].pc = "save"
  /\ LET r == [req[c] EXCEPT !.log = Append(@, Event(req[c].src, "save"))]
         rows == SavedRows(nextId, CompanyNameOf(r.src), r.batch)
         failed == [r EXCEPT !.saves = Append(@, Saved(r.src, 0, r.batch, FALSE))]
     IN  IF ~Storable(r.batch)
         THEN /\ db' = RolledBack(db, rows, "periods")
              /\ req' = [req EXCEPT ![c] = AfterSource(failed, Failure(r.src, OutOfRange))]
         ELSE \/ \E failAt \in Range(SaveStages) :
                   /\ db' = RolledBack(db, rows, failAt)
                   /\ req' = [ req EXCEPT ![c] =
                                 AfterSource(failed, Failure(r.src, QueryFailed)) ]
              \/ /\ db' = db
                 /\ req' = [ req EXCEPT ![c] =
                               [r EXCEPT !.statistics = Statistics(db), !.pc = "commit"] ]
  /\ UNCHANGED <<nextId, ops>>

\* the commit of the transaction of saveCompanyData
Commit(c) ==
  /\ req[c].pc = "commit"
  /\ LET r == req[c]
         rows == SavedRows(nextId, CompanyNameOf(r.src), r.batch)
     IN  \/ /\ db' = Insert(db, rows)
            /\ nextId' = nextId + 1
            /\ req' = [ req EXCEPT ![c] =
                          AfterSource([r EXCEPT !.saves = Append(@, Saved(r.src, nextId,
                                                                          r.batch, TRUE))],
                                      Success(r.src, r.statistics)) ]
         \/ /\ db' = RolledBack(db, rows, "commit")
            /\ nextId' = nextId
            /\ req' = [ req EXCEPT ![c] =
                          AfterSource([r EXCEPT !.saves = Append(@, Saved(r.src, 0,
                                                                          r.batch, FALSE))],
                                      Failure(r.src, QueryFailed)) ]
  /\ UNCHANGED ops

\* clearAllData: the four DELETE statements run in a transaction; deleting
\* a row deletes the rows that refer to it (ON DELETE CASCADE), so they
\* delete every row committed before the last statement starts.  A failure
\* is thrown on to the caller.
ClearDelete(c) ==
  /\ req[c].pc = "clear"
  /\ \/ req' = [ req EXCEPT ![c] =
                   [ @ EXCEPT !.log = Append(@, Event("none", "clear")),
                              !.deleting = db, !.pc = "clearCommit" ] ]
     \/ req' = [ req EXCEPT ![c] =
                   [ @ EXCEPT !.log = Append(@, Event("none", "clear")),
                              !.threw = TRUE, !.pc = "done" ] ]
  /\ UNCHANGED <<db, nextId, ops>>

\* the commit of the transaction of clearAllData; a refresh goes on with
\* processAllData
ClearCommit(c) ==
  /\ req[c].pc = "clearCommit"
  /\ \/ /\ db' = Delete(db, req[c].deleting)
        /\ req' = [ req EXCEPT ![c] =
                      [ @ EXCEPT !.deleting = EmptyDb,
                                 !.pc = IF req[c].op = "refresh" THEN "fetch" ELSE "done" ] ]
     \/ /\ db' = db
        /\ req' = [ req EXCEPT ![c] =
                      [@ EXCEPT !.deleting = EmptyDb, !.threw = TRUE, !.pc = "done"] ]
  /\ UNCHANGED <<nextId, ops>>

EtlInit ==
  /\ source = "none"
  /\ doc = <<>>
  /\ work = NoWork
  /\ out = <<>>
  /\ pc = "ready"
  /\ runs = <<>>
  /\ store = {}
  /\ call = NoCall
  /\ http = NoRequest
  /\ NoEtl

EtlStep(c, limit) ==
  \/ \E op \in Operations : Begin(c, op, limit)
  \/ FetchFails(c)
  \/ FetchQuickBooks(c)
  \/ FetchRootfi(c)
  \/ Save(c)
  \/ Commit(c)
  \/ ClearDelete(c)
  \/ ClearCommit(c)

\* one caller, whose operations follow one another
EtlNext ==
  /\ EtlStep("c1", MaxOps)
  /\ UNCHANGED <<source, doc, work, out, pc, runs, store, call, http>>

SpecETL == EtlInit /\ [][EtlNext]_vars

\* two callers, whose operations interleave at their awaits
ConcurrentNext ==
  /\ \E c \in Clients : EtlStep(c, MaxConcurrentOps)
  /\ UNCHANGED <<source, doc, work, out, pc, runs, store, call, http>>

SpecConcurrent == EtlInit /\ [][ConcurrentNext]_vars

-----------------------------------------------------------------------------
(* Vocabulary of the orchestration properties.                             *)

\* the result the pipeline of src has returned to its caller: none or one
ResultOf(r, src) ==
  IF r.op \in {"quickbooks", "rootfi"} THEN (IF r.src = src THEN r.result ELSE <<>>)
  ELSE IF src = "quickbooks" THEN r.qb
  ELSE r.rootfi

\* the stages an operation has invoked for src, in order
StagesOf(r, src) ==
  LET OfSource(e) == e.src = src
      events == SelectSeq(r.log, OfSource)
  IN  [ i \in DOMAIN events |-> events[i].stage ]

Sources == {"quickbooks", "rootfi"}

\* the fetch of client c fails in this step
FetchRejected(c) == Len(req'[c].rejected) > Len(req[c].rejected)

(* C21.  When the fetch of a source fails with error E, the pipeline       *)
(* returns success=false, a message that starts with "<Source> data        *)
(* processing failed" and the errors list ["Failed to load <Source> data:  *)
(* " followed by the text of E]; it invokes neither normalize nor save,    *)
(* and the store is unchanged.                                             *)
C21_FetchFailure ==
  [][ \A c \in Clients :
        FetchRejected(c) =>
          LET src == req[c].src
              E == req'[c].rejected[Len(req'[c].rejected)].error
              result == ResultOf(req'[c], src)
          IN  /\ Len(result) = 1
              /\ ~result[1].success
              /\ SubSeq(result[1].message, 1, 2)
                   = <<SourceName(src), " data processing failed">>
              /\ result[1].hasErrors
              /\ result[1].errors
                   = << <<"Failed to load ", SourceName(src), " data: ">>
                          \o StringOfError(E) >>
              /\ ~result[1].hasResults
              /\ StagesOf(req'[c], src) = <<"fetch", "result">>
              /\ req'[c].saves = req[c].saves
              /\ db' = db ]_vars

\* a QuickBooks fetch failed on a store that holds a company, and a Rootfi
\* fetch failed inside processAllData after QuickBooks was saved
C21_Witness ==
  /\ db.companies # {}
  /\ \E c \in Clients :
       /\ req[c].pc = "done"
       /\ req[c].op = "all"
       /\ req[c].qb[1].success
       /\ \E i \in DOMAIN req[c].rejected : req[c].rejected[i].src = "rootfi"
       /\ ~req[c].rootfi[1].success
       /\ req[c].rootfi[1].errors[1][2] = "Rootfi"
       /\ \A s \in DOMAIN req[c].saves : req[c].saves[s].src = "quickbooks"

\* the operations that call the orchestrator
Orchestrated == {"quickbooks", "rootfi", "all", "refresh"}

\* the result objects client c has received: of the pipelines and of the call
ResultsOf(r) == Range(r.qb) \cup Range(r.rootfi) \cup Range(r.result)

\* a text is a non-empty sequence of pieces of text
IsText(t) == Len(t) > 0 /\ \A i \in DOMAIN t : t[i] \in STRING

WellFormedResult(result) ==
  /\ result.success =>
       /\ result.hasResults
       /\ ~result.hasErrors
  /\ ~result.success =>
       /\ result.hasErrors
       /\ Len(result.errors) > 0
       /\ \A i \in DOMAIN result.errors : IsText(result.errors[i])
       /\ ~result.hasResults

(* C22.  processQuickBooksData, processRootfiData and processAllData never *)
(* throw: whatever stage fails, the call resolves to a result in which     *)
(* success=true implies results present and errors absent, and             *)
(* success=false implies errors a non-empty list of strings and results    *)
(* absent.  (Only clearAllData, ahead of a refresh, can throw.)            *)
C22_ResultWellFormed ==
  \A c \in Clients :
    LET r == req[c]
    IN  /\ \A result \in ResultsOf(r) : WellFormedResult(result)
        /\ r.threw => r.op \in {"refresh", "clear"} /\ ResultsOf(r) = {}
        /\ r.pc = "done" /\ r.op \in Orchestrated /\ ~r.threw => Len(r.result) = 1
        /\ r.pc = "done" /\ r.op = "all" => Len(r.qb) = 1 /\ Len(r.rootfi) = 1

\* processAllData answered after the QuickBooks save failed in the
\* transaction and the Rootfi document failed validation
C22_Witness ==
  \E c \in Clients :
    /\ req[c].pc = "done"
    /\ req[c].op = "all"
    /\ req[c].qb[1].errors = <<MessageOfError(QueryFailed)>>
    /\ req[c].rootfi[1].errors = <<MessageOfError(InvalidStructure)>>
    /\ ~req[c].result[1].success
    /\ Len(req[c].result[1].errors) = 2

\* a pipeline of client c returns its result in this step
PipelineReturned(c) ==
  /\ req'[c].log # req[c].log
  /\ req'[c].log # <<>>
  /\ req'[c].log[Len(req'[c].log)].stage = "result"

\* the rows of the store that belong to the company numbered id
RowsOfCompany(database, id) ==
  [ companies |-> { x \in database.companies : x.id = id },
    periods |-> { p \in database.periods : p.company.id = id },
    categories |-> { x \in database.categories : x.reportPeriod.company.id = id } ]

\* the line items a category row carries, as the batch writes them
StoredItems(category) ==
  [ n \in DOMAIN category.lineItems |->
      [key |-> category.lineItems[n].name, value |-> category.lineItems[n].value] ]

BatchItems(period, key) ==
  IF period.hasLineItems /\ key \in DOMAIN period.lineItems
  THEN [ n \in DOMAIN period.lineItems[key] |->
           [ key |-> period.lineItems[key][n].key,
             value |-> DecimalText(period.lineItems[key][n].value.v) ] ]
  ELSE <<>>

\* the keys under which a period of the batch lists line items
ItemKeys(period) == IF period.hasLineItems THEN DOMAIN period.lineItems ELSE {}

\* rows holds one company with this name, one report period per period of
\* the batch, nine categories per period with the line items the batch
\* lists under their keys and, with AllKeys, the line items it lists under
\* any key
HoldsBatch(rows, name, batch, AllKeys) ==
  /\ Cardinality(rows.companies) = 1
  /\ \A x \in rows.companies : x.name = name
  /\ Cardinality(rows.periods) = Len(batch)
  /\ Cardinality(rows.categories) = 9 * Len(batch)
  /\ \A i \in DOMAIN batch :
       \E p \in rows.periods :
         /\ p.id[2] = i
         /\ p.startDate = batch[i].startDate
         /\ p.endDate = batch[i].endDate
         /\ \A key \in CanonicalKeys :
              \E x \in rows.categories :
                /\ x.reportPeriod = p
                /\ x.name = CategoryName[key]
                /\ StoredItems(x) = BatchItems(batch[i], key)
         /\ \A key \in (IF AllKeys THEN ItemKeys(batch[i]) ELSE {}) :
              \E x \in rows.categories :
                /\ x.reportPeriod = p
                /\ StoredItems(x) = BatchItems(batch[i], key)

NoRows(rows) == rows = EmptyDb

\* the committed saves of the operation of client c are all in the store
CommittedStored(c) ==
  \A s \in DOMAIN req[c].saves :
    req[c].saves[s].committed =>
      HoldsBatch(RowsOfCompany(db, req[c].saves[s].companyId),
                 CompanyNameOf(req[c].saves[s].src), req[c].saves[s].periodData, FALSE)

\* what a returning pipeline leaves in the store
Atomic(c, AllKeys) ==
  LET r == req'[c]
      src == r.log[Len(r.log)].src
      result == ResultOf(r, src)[1]
      batch == req[c].batch
  IN  IF result.success
      THEN /\ r.saves # <<>>
           /\ LET saved == r.saves[Len(r.saves)]
              IN  /\ saved.committed
                  /\ saved.periodData = batch
                  /\ NoRows(RowsOfCompany(db, saved.companyId))
                  /\ HoldsBatch(RowsOfCompany(db', saved.companyId),
                                CompanyNameOf(src), batch, AllKeys)
                  /\ Delete(db', RowsOfCompany(db', saved.companyId)) = db
      ELSE /\ db' = db
           /\ \A s \in DOMAIN r.saves :
                ~r.saves[s].committed => r.saves[s].companyId = 0

(* C23.  Per-source atomicity.  When a pipeline returns success=true the   *)
(* store has gained the company, a report period per period of the batch,  *)
(* nine categories per period and the line items the batch lists under the *)
(* nine canonical keys, and nothing else has changed; when it returns      *)
(* success=false, also after a failure in the middle of saving, the store  *)
(* is as it was before the call.  Inside processAllData the rows one       *)
(* source committed stay in the store whatever the other source does.      *)
(* Line items the batch lists under another key (taxes) are not stored.    *)
C23_Atomic ==
  [][ \A c \in Clients :
        /\ PipelineReturned(c) => Atomic(c, FALSE)
        /\ CommittedStored(c)' ]_vars

\* the statement with "all line items of the batch"
C23_AllLineItemsStored ==
  [][ \A c \in Clients : PipelineReturned(c) => Atomic(c, TRUE) ]_vars

\* processAllData is over: the QuickBooks batch of two periods is in the
\* store with its line items and the Rootfi save failed, and nothing of
\* the Rootfi batch is stored
C23_Witness ==
  \E c \in Clients :
    /\ req[c].pc = "done"
    /\ req[c].op = "all"
    /\ req[c].qb[1].success
    /\ ~req[c].rootfi[1].success
    /\ Len(req[c].saves) = 2
    /\ req[c].saves[1].committed
    /\ Len(req[c].saves[1].periodData) = 2
    /\ ~req[c].saves[2].committed
    /\ req[c].saves[2].periodData # <<>>
    /\ Cardinality(db.periods) = 2
    /\ \E x \in db.categories : x.lineItems # <<>>
    /\ \A x \in db.companies : x.name = "CompanyA"

\* processAllData, called directly or by a refresh, has answered client c
AllAnswered(c) ==
  /\ req[c].op \in {"all", "refresh"}
  /\ req[c].pc = "done"
  /\ req[c].result # <<>>

FailureErrors(result) == IF result.success THEN <<>> ELSE result.errors

(* C24.  The result of processAllData has success=true exactly when both   *)
(* pipelines succeeded.  When it is false, its message is "Unified data    *)
(* processing failed" and its errors are the errors of the QuickBooks      *)
(* pipeline followed by the errors of the Rootfi pipeline: those of both   *)
(* when both failed, those of the failing one when one failed.             *)
C24_CombinedResult ==
  \A c \in Clients :
    AllAnswered(c) =>
      LET qb == req[c].qb[1]
          rootfi == req[c].rootfi[1]
          result == req[c].result[1]
      IN  /\ result.success <=> (qb.success /\ rootfi.success)
          /\ ~result.success =>
               /\ result.message = <<"Unified data processing failed">>
               /\ result.errors = FailureErrors(qb) \o FailureErrors(rootfi)
               /\ ~qb.success /\ ~rootfi.success =>
                    result.errors = <<qb.errors[1], rootfi.errors[1]>>
               /\ qb.success => result.errors = rootfi.errors
               /\ rootfi.success => result.errors = qb.errors

\* processAllData answered after the QuickBooks fetch failed and the Rootfi
\* validation threw: two different errors, QuickBooks first
C24_Witness ==
  \E c \in Clients :
    /\ AllAnswered(c)
    /\ req[c].op = "all"
    /\ ~req[c].result[1].success
    /\ Len(req[c].result[1].errors) = 2
    /\ req[c].result[1].errors[1][2] = "QuickBooks"
    /\ req[c].result[1].errors[2] = MessageOfError(TypeErrorNull)

\* the counts of the rows a run has saved
PerRunCounts(database, companyId) == Statistics(RowsOfCompany(database, companyId))

(* C25.  The results of a successful pipeline are the numbers of           *)
(* companies (1), report periods, categories and line items that this run  *)
(* saved, whatever the store held before; the results of a successful      *)
(* processAllData are the numbers of entities its two runs added.          *)
C25_PerRunCounts ==
  [][ \A c \in Clients :
        PipelineReturned(c) =>
          LET r == req'[c]
              src == r.log[Len(r.log)].src
              result == ResultOf(r, src)[1]
          IN  result.success =>
                /\ result.results
                     = PerRunCounts(db', r.saves[Len(r.saves)].companyId)
                /\ result.results.companies = 1
                /\ r.pc = "done" /\ r.op \in {"all", "refresh"} =>
                     /\ r.result[1].results.companies = 2
                     /\ \A f \in DOMAIN NoStatistics :
                          r.result[1].results[f]
                            = PerRunCounts(db', r.saves[1].companyId)[f]
                                + PerRunCounts(db', r.saves[2].companyId)[f] ]_vars

\* data is an array in which every element has a non-empty period_start, a
\* non-empty period_end and a numeric rootfi_company_id
StructurallyValid(response) ==
  /\ response.kind = "object"
  /\ response.dataIsArray
  /\ \A i \in DOMAIN response.data :
       /\ ~response.data[i].isNull
       /\ response.data[i].period_start # ""
       /\ response.data[i].period_end # ""
       /\ response.data[i].rootfi_company_id.kind = "num"

\* client c receives this response of the Rootfi URL in this step
RootfiFetched(c, response) ==
  /\ req[c].pc = "fetch"
  /\ req[c].src = "rootfi"
  /\ Prepare(c, PrepareRootfi(response))

\* client c receives this response of the QuickBooks URL in this step
QuickBooksFetched(c, response) ==
  /\ req[c].pc = "fetch"
  /\ req[c].src = "quickbooks"
  /\ Prepare(c, PrepareQuickBooks(response))

(* C26.  processRootfiData normalizes and saves only a document whose data *)
(* is an array of elements with a non-empty period_start, a non-empty      *)
(* period_end and a numeric rootfi_company_id; for any other document it   *)
(* returns success=false with the error "Invalid Rootfi data structure"    *)
(* and leaves the store unchanged.  processQuickBooksData has no such      *)
(* step: the fetched document goes straight to normalization.              *)
C26_StructuralValidation ==
  [][ \A c \in Clients :
        /\ \A response \in RootfiResponses :
             RootfiFetched(c, response) =>
               IF StructurallyValid(response)
               THEN /\ req'[c].pc = "save"
                    /\ StagesOf(req'[c], "rootfi") = <<"fetch", "validate", "normalize">>
               ELSE /\ StagesOf(req'[c], "rootfi") = <<"fetch", "validate", "result">>
                    /\ ~ResultOf(req'[c], "rootfi")[1].success
                    /\ ResultOf(req'[c], "rootfi")[1].errors
                         = << <<"Invalid Rootfi data structure">> >>
                    /\ db' = db
        /\ \A response \in QuickBooksResponses :
             QuickBooksFetched(c, response) =>
               SubSeq(StagesOf(req'[c], "quickbooks"), 1, 2) = <<"fetch", "normalize">> ]_vars

\* the number of times the stage was invoked
Count(stages, stage) == Cardinality({ i \in DOMAIN stages : stages[i] = stage })

\* the orders of stages a pipeline can have gone through, from the fetch up
\* to the return of its result
StageOrders(src) ==
  IF src = "quickbooks"
  THEN { <<"fetch", "result">>,
         <<"fetch", "normalize", "result">>,
         <<"fetch", "normalize", "save", "result">> }
  ELSE { <<"fetch", "result">>,
         <<"fetch", "validate", "result">>,
         <<"fetch", "validate", "normalize", "save", "result">> }

IsPrefix(s, t) == Len(s) <= Len(t) /\ SubSeq(t, 1, Len(s)) = s

\* the position of the first event of src in the log, 0 when there is none
FirstEvent(log, src) ==
  IF \E i \in DOMAIN log : log[i].src = src
  THEN CHOOSE i \in DOMAIN log : log[i].src = src /\ \A j \in 1..(i - 1) : log[j].src # src
  ELSE 0

(* C27.  Within one pipeline the stages run in the order fetch, (Rootfi:   *)
(* validate), normalize, save: the fetch is invoked once, the save at most *)
(* once and only after every earlier stage succeeded.  In processAllData   *)
(* the Rootfi fetch comes only after the QuickBooks pipeline has returned  *)
(* its result, and it comes whatever that result is.                       *)
C27_StageOrder ==
  \A c \in Clients :
    LET r == req[c]
    IN  /\ \A src \in Sources :
             LET stages == StagesOf(r, src)
             IN  /\ \E order \in StageOrders(src) : IsPrefix(stages, order)
                 /\ Count(stages, "fetch") <= 1
                 /\ Count(stages, "save") <= 1
                 /\ ResultOf(r, src) # <<>> =>
                      /\ stages \in StageOrders(src)
                      /\ ResultOf(r, src)[1].success => Count(stages, "save") = 1
        /\ r.op \in {"all", "refresh"} =>
             /\ FirstEvent(r.log, "rootfi") > 0 =>
                  /\ r.qb # <<>>
                  /\ r.log[FirstEvent(r.log, "rootfi")].stage = "fetch"
                  /\ r.log[FirstEvent(r.log, "rootfi") - 1]
                       = Event("quickbooks", "result")
             /\ r.pc = "done" /\ r.qb # <<>> =>
                  Count(StagesOf(r, "rootfi"), "fetch") = 1

\* processAllData is over: the QuickBooks save failed, the Rootfi pipeline
\* was started after it and went through its four stages
C27_Witness ==
  \E c \in Clients :
    /\ req[c].op = "all"
    /\ req[c].pc = "done"
    /\ StagesOf(req[c], "quickbooks") = <<"fetch", "normalize", "save", "result">>
    /\ ~req[c].qb[1].success
    /\ StagesOf(req[c], "rootfi") = <<"fetch", "validate", "normalize", "save", "result">>
    /\ req[c].rootfi[1].success

CategoriesOf(database, period) == { x \in database.categories : x.reportPeriod = period }

\* the text of a decimal(15,2) value: an optional sign, digits, and two
\* digits after the point
IsDecimalText(t) ==
  LET digits == IF t # <<>> /\ t[1] = "-" THEN Tail(t) ELSE t
      n == Len(digits)
  IN  /\ n >= 4
      /\ digits[n - 2] = "."
      /\ \A i \in (1..n) \ {n - 2} : IsDigit(digits[i])

ZeroText == <<"0", ".", "0", "0">>

TaxesName == <<"t", "a", "x", "e", "s">>

\* a category of a saved period record that lacks the field holds 0
LackingFieldsAreZero(c) ==
  \A s \in DOMAIN req[c].saves :
    LET saved == req[c].saves[s]
    IN  saved.committed =>
          \A x \in RowsOfCompany(db, saved.companyId).categories :
            \A key \in CanonicalKeys :
              /\ x.name = CategoryName[key]
              /\ key \notin DOMAIN saved.periodData[x.reportPeriod.id[2]].fields
              => x.value = ZeroText

(* C28.  In every reachable state every stored report period has exactly   *)
(* nine categories, one per canonical key, each with a numeric value, 0    *)
(* when the period record lacks the field; the number of categories is 9   *)
(* times the number of report periods, and no category is named taxes.     *)
C28_NineCategories ==
  /\ \A p \in db.periods :
       /\ Cardinality(CategoriesOf(db, p)) = 9
       /\ \A key \in CanonicalKeys :
            \E x \in CategoriesOf(db, p) : x.name = CategoryName[key]
  /\ \A x \in db.categories :
       /\ x.reportPeriod \in db.periods
       /\ IsDecimalText(x.value)
       /\ x.name # TaxesName
  /\ Cardinality(db.categories) = 9 * Cardinality(db.periods)
  /\ \A c \in Clients : LackingFieldsAreZero(c)

\* after a clear, a refresh has stored a QuickBooks record without a cogs
\* field and a Rootfi record with a taxes field
C28_Witness ==
  \E c \in Clients :
    /\ req[c].op = "refresh"
    /\ req[c].pc = "done"
    /\ Len(req[c].saves) = 2
    /\ req[c].saves[1].committed
    /\ req[c].saves[2].committed
    /\ "cogs" \notin DOMAIN req[c].saves[1].periodData[1].fields
    /\ req[c].saves[2].periodData # <<>>
    /\ "taxes" \in DOMAIN req[c].saves[2].periodData[1].fields
    /\ Cardinality(db.periods) >= 2
    /\ \E x \in db.categories : x.name = K_cogs /\ x.value = ZeroText
    /\ \E x \in db.categories : x.value # ZeroText

\* the refresh of client c answers with success in this step
RefreshAnswers(c) ==
  /\ req[c].op = "refresh"
  /\ req[c].pc # "done"
  /\ req'[c].pc = "done"
  /\ req'[c].result # <<>>
  /\ req'[c].result[1].success

\* the rows the committed saves of an operation have written
RowsSavedBy(r) ==
  [ companies |-> UNION { SavedRows(r.saves[s].companyId, CompanyNameOf(r.saves[s].src),
                                    r.saves[s].periodData).companies :
                            s \in { i \in DOMAIN r.saves : r.saves[i].committed } },
    periods |-> UNION { SavedRows(r.saves[s].companyId, CompanyNameOf(r.saves[s].src),
                                  r.saves[s].periodData).periods :
                          s \in { i \in DOMAIN r.saves : r.saves[i].committed } },
    categories |-> UNION { SavedRows(r.saves[s].companyId, CompanyNameOf(r.saves[s].src),
                                     r.saves[s].periodData).categories :
                             s \in { i \in DOMAIN r.saves : r.saves[i].committed } } ]

(* C29.  When a refresh answers with success, the store holds exactly the  *)
(* rows its two runs saved, two companies, one per source, and nothing     *)
(* that was stored before it, also when the steps of another request       *)
(* interleave with the refresh at its awaits.                              *)
C29_RefreshExact ==
  [][ \A c \in Clients :
        RefreshAnswers(c) =>
          /\ db' = RowsSavedBy(req'[c])
          /\ Cardinality(db'.companies) = 2
          /\ { x.name : x \in db'.companies } = {"CompanyA", "CompanyB"} ]_vars

\* what a run has stored for its company, without the ids of the rows
ContentOf(database, id) ==
  { [ period |-> x.reportPeriod.id[2],
      startDate |-> x.reportPeriod.startDate,
      endDate |-> x.reportPeriod.endDate,
      name |-> x.name,
      value |-> x.value,
      lineItems |-> StoredItems(x) ] : x \in RowsOfCompany(database, id).categories }

\* the store holds the rows of runs of one source on one document, and
\* nothing else
OnlyRepeats(database) ==
  /\ database.companies # {}
  /\ \A x, y \in database.companies :
       /\ x.name = y.name
       /\ ContentOf(database, x.id) = ContentOf(database, y.id)

CategoriesNamed(categories, key) == { x \in categories : x.name = CategoryName[key] }

\* the merged categories the date-range query can answer with, for the
\* categories of one key
MergedOf(categories, key, startDate, endDate) ==
  { MergeAndSort(rows) :
      rows \in FindCategories(CategoriesNamed(categories, key), startDate, endDate) }

\* n runs of one document: every merged category is n times that of one run
MergedIsMultiple(database) ==
  LET n == Cardinality(database.companies)
  IN  \A x \in database.companies :
        \A p \in RowsOfCompany(database, x.id).periods :
          \A key \in CanonicalKeys :
            \A merged \in MergedOf(database.categories, key, p.startDate, p.endDate) :
              \A single \in MergedOf(RowsOfCompany(database, x.id).categories, key,
                                     p.startDate, p.endDate) :
                /\ Len(merged) = 1
                /\ Len(single) = 1
                /\ merged[1].value = n * single[1].value
                /\ Len(merged[1].companies) = n
                /\ Len(single[1].companies) = 1
                /\ Len(merged[1].lineItems) = n * Len(single[1].lineItems)

\* a pipeline of client c returns success in this step
RunSucceeded(c) ==
  /\ PipelineReturned(c)
  /\ ResultOf(req'[c], req'[c].log[Len(req'[c].log)].src)[1].success

(* C30.  No incremental update.  Every successful pipeline adds one new    *)
(* company row with the periods of its batch, also when a company of that  *)
(* name with the same periods is stored already.  When the store holds     *)
(* the rows of n successful runs of one source on one document and nothing *)
(* else, it holds n companies of that name, and the merged value of each   *)
(* category for a period's bounds is n times the value merged from one run *)
(* alone, with n entries in its companies list.                            *)
C30_NoIncrementalUpdate ==
  [][ /\ \A c \in Clients :
           RunSucceeded(c) =>
             LET saved == req'[c].saves[Len(req'[c].saves)]
             IN  /\ Cardinality(db'.companies) = Cardinality(db.companies) + 1
                 /\ Cardinality(db'.periods)
                      = Cardinality(db.periods) + Len(saved.periodData)
                 /\ \A x \in db.companies : x.id # saved.companyId
                 /\ db.companies \subseteq db'.companies
                 /\ db.periods \subseteq db'.periods
                 /\ db.categories \subseteq db'.categories
      /\ db' # db /\ OnlyRepeats(db') => MergedIsMultiple(db') ]_vars

\* three runs of processQuickBooksData on the two-period document
C30_Witness ==
  /\ OnlyRepeats(db)
  /\ Cardinality(db.companies) = 3
  /\ Cardinality(db.periods) = 6
  /\ \A x \in db.companies : x.name = "CompanyA"
  /\ \E x \in db.categories : x.name = K_income /\ x.value # ZeroText /\ x.lineItems # <<>>
  /\ MergedIsMultiple(db)

====
